---- MODULE Spec2Model ----
(***************************************************************************)
(* A model of the mcdoc-to-JSON-Schema compiler of src/compiler.py: the    *)
(* Lexer, the recursive-descent Parser, the JSONSchemaGenerator and the    *)
(* McdocCompiler directory walk.                                           *)
(*                                                                         *)
(* Representation.  A source text is a sequence of one-character strings;  *)
(* a token value is the sequence of characters the lexer collected.  The   *)
(* AST holds names as strings (Str of the token value).  A Python dict is  *)
(* a function from its keys, a Python list a sequence, None the empty      *)
(* sequence and a present optional value the one-element sequence.  A      *)
(* float is a decimal [m, e] standing for m * 10^e, normalised.            *)
(***************************************************************************)
EXTENDS Integers, Sequences, FiniteSets, TLC

VARIABLES tree, unreadable, unwritable, pc, idx, output, log,
          type_definitions, schema_cache, last, run, first_output, given,
          lexer, parser

vars == <<tree, unreadable, unwritable, pc, idx, output, log,
          type_definitions, schema_cache, last, run, first_output, given,
          lexer, parser>>

-----------------------------------------------------------------------------
(* Characters                                                              *)

NUL == "NUL"
NL == "\n"
Digit == {"0", "1", "2", "3", "4", "5", "6", "7", "8", "9"}
DigitSeq == <<"0", "1", "2", "3", "4", "5", "6", "7", "8", "9">>
LowerSeq == <<"a", "b", "c", "d", "e", "f", "g", "h", "i", "j", "k", "l", "m",
              "n", "o", "p", "q", "r", "s", "t", "u", "v", "w", "x", "y", "z">>
UpperSeq == <<"A", "B", "C", "D", "E", "F", "G", "H", "I", "J", "K", "L", "M",
              "N", "O", "P", "Q", "R", "S", "T", "U", "V", "W", "X", "Y", "Z">>
Alpha == {LowerSeq[i] : i \in DOMAIN LowerSeq} \cup {UpperSeq[i] : i \in DOMAIN UpperSeq}
Space == {" ", "\t", "\r", NL}

isdigit(c) == c \in Digit
isalpha(c) == c \in Alpha
isalnum(c) == c \in Alpha \cup Digit
isspace(c) == c \in Space
lower(c) == IF \E i \in DOMAIN UpperSeq : UpperSeq[i] = c
            THEN LowerSeq[CHOOSE i \in DOMAIN UpperSeq : UpperSeq[i] = c]
            ELSE c

RECURSIVE Str(_)
Str(s) == IF s = <<>> THEN "" ELSE Head(s) \o Str(Tail(s))

\* the value of a one-element set: { e(x) : x \in {v} } names v once in e
The(S) == CHOOSE x \in S : TRUE

None == <<>>
Some(x) == <<x>>

-----------------------------------------------------------------------------
(* Lexer.  L is the lexer's position [pos, line, column], pos counted from *)
(* 0 as in the source.                                                     *)

KEYWORDS == [struct |-> "STRUCT", enum |-> "ENUM", type |-> "TYPE", use |-> "USE",
             dispatch |-> "DISPATCH", super |-> "SUPER", any |-> "ANY",
             boolean |-> "BOOLEAN_TYPE", string |-> "STRING_TYPE", byte |-> "BYTE",
             short |-> "SHORT", int |-> "INT", long |-> "LONG", float |-> "FLOAT_TYPE",
             double |-> "DOUBLE", true |-> "TRUE", false |-> "FALSE", to |-> "TO"]

Token(type, value, line, column) ==
    [type |-> type, value |-> value, line |-> line, column |-> column]

Lexer_init == [pos |-> 0, line |-> 1, column |-> 1]

Lexer_peek(text, L, offset) ==
    IF L.pos + offset >= Len(text) THEN NUL ELSE text[L.pos + offset + 1]

Lexer_advance(text, L) ==
    IF L.pos >= Len(text) THEN L
    ELSE IF text[L.pos + 1] = NL
         THEN [pos |-> L.pos + 1, line |-> L.line + 1, column |-> 1]
         ELSE [pos |-> L.pos + 1, line |-> L.line, column |-> L.column + 1]

\* skip_whitespace without its advance(): the lexer is left before the space
skip_whitespace_Stays(text, L) == L

RECURSIVE skip_whitespace(_, _)
skip_whitespace(text, L) ==
    IF isspace(Lexer_peek(text, L, 0)) /\ Lexer_peek(text, L, 0) # NL
    THEN The({ skip_whitespace(text, next) : next \in {Lexer_advance(text, L)} })
    ELSE L

escape_map(c) ==
    CASE c = "n" -> "\n"
      [] c = "t" -> "\t"
      [] c = "r" -> "\r"
      [] c = "b" -> "BS"
      [] c = "f" -> "\f"
      [] OTHER -> c

RECURSIVE read_string_loop(_, _, _, _)
read_string_loop(text, L, quote, value) ==
    LET c == Lexer_peek(text, L, 0) IN
    IF c # quote /\ c # NUL
    THEN IF c = "\\"
         THEN LET L1 == Lexer_advance(text, L)
                  escaped == Lexer_peek(text, L1, 0)
              IN The({ read_string_loop(text, next, quote,
                                        Append(value, escape_map(escaped)))
                       : next \in {Lexer_advance(text, L1)} })
         ELSE The({ read_string_loop(text, next, quote, Append(value, c))
                    : next \in {Lexer_advance(text, L)} })
    ELSE [value |-> value, L |-> L]

read_string(text, L) ==
    The({ IF Lexer_peek(text, r.L, 0) = NUL
          THEN [err |-> "LexerError", message |-> "Unterminated string",
                line |-> r.L.line, column |-> r.L.column]
          ELSE [err |-> "none", value |-> r.value, L |-> Lexer_advance(text, r.L)]
          : r \in {read_string_loop(text, Lexer_advance(text, L),
                                    Lexer_peek(text, L, 0), <<>>)} })

RECURSIVE read_digits(_, _, _)
read_digits(text, L, value) ==
    IF isdigit(Lexer_peek(text, L, 0))
    THEN The({ read_digits(text, next, Append(value, Lexer_peek(text, L, 0)))
               : next \in {Lexer_advance(text, L)} })
    ELSE [value |-> value, L |-> L]

\* read_number_loop without the look-ahead "if self.peek(1) == '.': break":
\* the first dot after the digits always goes into the number
RECURSIVE read_number_loop_SwallowsDot(_, _, _, _)
read_number_loop_SwallowsDot(text, L, value, has_dot) ==
    LET c == Lexer_peek(text, L, 0) IN
    IF isdigit(c) \/ (c = "." /\ ~has_dot)
    THEN read_number_loop_SwallowsDot(text, Lexer_advance(text, L), Append(value, c),
                                      has_dot \/ c = ".")
    ELSE [value |-> value, L |-> L, has_dot |-> has_dot]

RECURSIVE read_number_loop(_, _, _, _)
read_number_loop(text, L, value, has_dot) ==
    LET c == Lexer_peek(text, L, 0) IN
    IF isdigit(c) \/ (c = "." /\ ~has_dot)
    THEN IF c = "." /\ Lexer_peek(text, L, 1) = "."
         THEN [value |-> value, L |-> L, has_dot |-> has_dot]
         ELSE The({ read_number_loop(text, next, Append(value, c), has_dot \/ c = ".")
                    : next \in {Lexer_advance(text, L)} })
    ELSE [value |-> value, L |-> L, has_dot |-> has_dot]

\* the "e", its optional sign and its digits, when the number goes on with one
read_exponent(text, r1) ==
    IF lower(Lexer_peek(text, r1.L, 0)) = "e"
    THEN LET e == Lexer_peek(text, r1.L, 0)
             Le == Lexer_advance(text, r1.L)
         IN IF Lexer_peek(text, Le, 0) \in {"+", "-"}
            THEN read_digits(text, Lexer_advance(text, Le),
                             r1.value \o <<e, Lexer_peek(text, Le, 0)>>)
                 @@ [has_dot |-> TRUE]
            ELSE read_digits(text, Le, Append(r1.value, e)) @@ [has_dot |-> TRUE]
    ELSE r1

\* the optional type suffix and the type of the token
read_suffix(text, r2) ==
    LET suffix == lower(Lexer_peek(text, r2.L, 0))
    IN IF suffix \in {"b", "s", "l", "f", "d"}
       THEN [value |-> Append(r2.value, suffix),
             type |-> IF suffix \in {"f", "d"} THEN "FLOAT" ELSE "INTEGER",
             L |-> Lexer_advance(text, r2.L)]
       ELSE [value |-> r2.value, type |-> IF r2.has_dot THEN "FLOAT" ELSE "INTEGER",
             L |-> r2.L]

read_number(text, L) ==
    IF Lexer_peek(text, L, 0) \in {"-", "+"}
    THEN read_suffix(text, read_exponent(text,
             read_number_loop(text, Lexer_advance(text, L), <<Lexer_peek(text, L, 0)>>,
                              FALSE)))
    ELSE read_suffix(text, read_exponent(text, read_number_loop(text, L, <<>>, FALSE)))

RECURSIVE read_identifier_loop(_, _, _)
read_identifier_loop(text, L, value) ==
    LET c == Lexer_peek(text, L, 0) IN
    IF isalnum(c) \/ c = "_"
    THEN The({ read_identifier_loop(text, next, Append(value, c))
               : next \in {Lexer_advance(text, L)} })
    ELSE [value |-> value, L |-> L]

read_identifier(text, L) == read_identifier_loop(text, L, <<>>)

RECURSIVE lstrip(_)
lstrip(s) == IF s # <<>> /\ isspace(Head(s)) THEN lstrip(Tail(s)) ELSE s

RECURSIVE rstrip(_)
rstrip(s) == IF s # <<>> /\ isspace(s[Len(s)]) THEN rstrip(SubSeq(s, 1, Len(s) - 1)) ELSE s

strip(s) == rstrip(lstrip(s))

RECURSIVE read_comment_loop(_, _, _)
read_comment_loop(text, L, content) ==
    LET c == Lexer_peek(text, L, 0) IN
    IF c # NL /\ c # NUL
    THEN The({ read_comment_loop(text, next, Append(content, c))
               : next \in {Lexer_advance(text, L)} })
    ELSE [content |-> content, L |-> L]

read_comment(text, L) ==
    IF Lexer_peek(text, L, 0) = "/" /\ Lexer_peek(text, L, 1) = "/"
    THEN LET L2 == Lexer_advance(text, Lexer_advance(text, L))
             is_doc == Lexer_peek(text, L2, 0) = "/"
         IN The({ [value |-> strip(r.content),
                   type |-> IF is_doc THEN "DOC_COMMENT" ELSE "COMMENT", L |-> r.L]
                  : r \in {read_comment_loop(text,
                               IF is_doc THEN Lexer_advance(text, L2) ELSE L2, <<>>)} })
    ELSE [value |-> <<>>, type |-> "COMMENT", L |-> L]

special_tokens(key) ==
    CASE key = "%fallback" -> "FALLBACK"
      [] key = "%none" -> "NONE"
      [] key = "%unknown" -> "UNKNOWN"
      [] key = "%key" -> "KEY"
      [] key = "%parent" -> "PARENT"
      [] OTHER -> "IDENTIFIER"

char_map == [c \in {"{", "}", "[", "]", "(", ")", ">", ";", ",", "?", "|", "&", "=", "#", "@"} |->
    CASE c = "{" -> "LBRACE"  [] c = "}" -> "RBRACE"
      [] c = "[" -> "LBRACKET" [] c = "]" -> "RBRACKET"
      [] c = "(" -> "LPAREN"  [] c = ")" -> "RPAREN"
      [] c = ">" -> "RANGLE"  [] c = ";" -> "SEMICOLON"
      [] c = "," -> "COMMA"   [] c = "?" -> "QUESTION"
      [] c = "|" -> "PIPE"    [] c = "&" -> "AMPERSAND"
      [] c = "=" -> "EQUALS"  [] c = "#" -> "HASH"
      [] c = "@" -> "AT"]

\* a word is a boolean, a keyword or an identifier
word_type(word) ==
    IF word \in {"true", "false"} THEN "BOOLEAN"
    ELSE IF word \in DOMAIN KEYWORDS THEN KEYWORDS[word]
    ELSE "IDENTIFIER"

Lexer_advance_n(text, L, n) ==
    IF n = 1 THEN Lexer_advance(text, L)
    ELSE IF n = 2 THEN Lexer_advance(text, Lexer_advance(text, L))
    ELSE IF n = 3 THEN Lexer_advance(text, Lexer_advance(text, Lexer_advance(text, L)))
    ELSE Lexer_advance(text, Lexer_advance(text, Lexer_advance(text, Lexer_advance(text, L))))

\* the result of one turn of the while loop of tokenize: the token appended,
\* if any, and the lexer after it
Turn(token, L) == [err |-> "none", token |-> token, L |-> L]

\* one turn of the while loop of tokenize, the lexer standing before a character
next_token(text, L) ==
    LET char == Lexer_peek(text, L, 0)
        p1 == Lexer_peek(text, L, 1)
        p2 == Lexer_peek(text, L, 2)
        p3 == Lexer_peek(text, L, 3)
        tok(type, value) == Token(type, value, L.line, L.column)
        emit(type, value, n) == Turn(Some(tok(type, value)), Lexer_advance_n(text, L, n))
    IN
    IF char = NL THEN emit("NEWLINE", <<"\\", "n">>, 1)
    ELSE IF isspace(char) THEN Turn(None, skip_whitespace(text, L))
    ELSE IF char = "/" /\ p1 = "/"
    THEN The({ Turn(IF r.type = "DOC_COMMENT" THEN Some(tok(r.type, r.value)) ELSE None, r.L)
               : r \in {read_comment(text, L)} })
    ELSE IF char \in {"\"", "'"}
    THEN The({ IF r.err # "none" THEN r
               ELSE Turn(Some(tok("STRING", r.value)), r.L)
               : r \in {read_string(text, L)} })
    ELSE IF isdigit(char) \/ (char \in {"+", "-"} /\ isdigit(p1))
    THEN The({ Turn(Some(tok(r.type, r.value)), r.L)
               : r \in {read_number(text, L)} })
    ELSE IF isalpha(char) \/ char = "_"
    THEN The({ Turn(Some(tok(word_type(Str(r.value)), r.value)), r.L)
               : r \in {read_identifier(text, L)} })
    ELSE IF char = ":"
    THEN IF p1 = ":" THEN emit("DOUBLE_COLON", <<":", ":">>, 2)
         ELSE emit("COLON", <<":">>, 1)
    ELSE IF char = "."
    THEN IF p1 = "." /\ p2 = "." THEN emit("ELLIPSIS", <<".", ".", ".">>, 3)
         ELSE IF p1 = "."
         THEN IF p2 = "<" THEN emit("RANGE_EXCLUSIVE", <<".", ".", "<">>, 3)
              ELSE emit("RANGE", <<".", ".">>, 2)
         ELSE emit("DOT", <<".">>, 1)
    ELSE IF char = "<"
    THEN IF p1 = "." /\ p2 = "."
         THEN IF p3 = "<" THEN emit("EXCLUSIVE_RANGE_EXCLUSIVE", <<"<", ".", ".", "<">>, 4)
              ELSE emit("EXCLUSIVE_RANGE", <<"<", ".", ".">>, 3)
         ELSE emit("LANGLE", <<"<">>, 1)
    ELSE IF char = "%"
    THEN The({ Turn(Some(tok(special_tokens(Str(<<"%">> \o r.value)), <<"%">> \o r.value)),
                    r.L)
               : r \in {read_identifier(text, Lexer_advance(text, L))} })
    ELSE IF char \in DOMAIN char_map THEN emit(char_map[char], <<char>>, 1)
    ELSE [err |-> "LexerError", message |-> "Unexpected character",
          line |-> L.line, column |-> L.column]

\* the lexer in the while loop of tokenize; done once the loop is left and
\* the EOF token appended
Lexing(L, tokens, done) == [err |-> "none", L |-> L, tokens |-> tokens, done |-> done]

\* one turn of the while loop of tokenize; the turn that finds the text
\* exhausted leaves the loop and appends EOF; a LexerError ends the lexer.  A
\* turn reads nothing but the text and the position: one that leaves the
\* position where it was is repeated for ever, and the loop never ends
tokenize_turn(text, S) ==
    IF S.err # "none" \/ S.done THEN S
    ELSE IF ~(S.L.pos < Len(text)) \/ Lexer_peek(text, S.L, 0) = NUL
    THEN Lexing(S.L, Append(S.tokens, Token("EOF", <<>>, S.L.line, S.L.column)), TRUE)
    ELSE The({ IF r.err # "none" THEN r
               ELSE IF ~(r.L.pos > S.L.pos)
               THEN [err |-> "NonTermination", message |-> "NonTermination",
                     line |-> S.L.line, column |-> S.L.column]
               ELSE Lexing(r.L, IF r.token = None THEN S.tokens
                                ELSE Append(S.tokens, r.token[1]), FALSE)
               : r \in {next_token(text, S.L)} })

\* the lexer after that many turns of the loop, the turns taken half by half
RECURSIVE tokenize_loop(_, _, _)
tokenize_loop(text, S, turns) ==
    IF turns = 0 THEN S
    ELSE IF turns = 1 THEN tokenize_turn(text, S)
    ELSE The({ tokenize_loop(text, half, turns - turns \div 2)
               : half \in {tokenize_loop(text, S, turns \div 2)} })

\* a lexer that advances by one character at least in every turn exhausts
\* the text in Len(text) turns and appends EOF in one more
tokenize(text) ==
    The({ IF S.err # "none" THEN S ELSE [err |-> "none", tokens |-> S.tokens]
          : S \in {tokenize_loop(text, Lexing(Lexer_init, <<>>, FALSE), Len(text) + 1)} })

-----------------------------------------------------------------------------
(* Python's int() and float() on the text of a number token.  Both raise   *)
(* ValueError on a text that is not a number, such as one carrying a type  *)
(* suffix.                                                                 *)

DigitVal(c) == (CHOOSE i \in DOMAIN DigitSeq : DigitSeq[i] = c) - 1

RECURSIVE DigitsToInt(_, _)
DigitsToInt(s, acc) ==
    IF s = <<>> THEN acc ELSE DigitsToInt(Tail(s), 10 * acc + DigitVal(Head(s)))

AllDigits(s) == \A i \in DOMAIN s : isdigit(s[i])

RECURSIVE Pow10(_)
Pow10(n) == IF n <= 0 THEN 1 ELSE 10 * Pow10(n - 1)

RECURSIVE Normalise(_, _)
Normalise(m, e) ==
    IF m = 0 THEN [m |-> 0, e |-> 0]
    ELSE IF m % 10 = 0 THEN Normalise(m \div 10, e + 1)
    ELSE [m |-> m, e |-> e]

Dec(m, e) == Normalise(m, e)

Unsigned(s) == IF s # <<>> /\ Head(s) \in {"+", "-"} THEN Tail(s) ELSE s
Negative(s) == s # <<>> /\ Head(s) = "-"

PyInt(s) ==
    The({ IF body # <<>> /\ AllDigits(body)
          THEN [err |-> "none",
                val |-> IF Negative(s) THEN 0 - DigitsToInt(body, 0)
                        ELSE DigitsToInt(body, 0)]
          ELSE [err |-> "ValueError"]
          : body \in {Unsigned(s)} })

IndexOf(s, chars) ==
    IF \E i \in DOMAIN s : s[i] \in chars
    THEN CHOOSE i \in DOMAIN s : s[i] \in chars /\ \A j \in 1..(i - 1) : s[j] \notin chars
    ELSE 0

\* s cut at its first character of chars, which is left out
Split(s, chars) ==
    The({ IF i = 0 THEN [found |-> FALSE, left |-> s, right |-> <<>>]
          ELSE [found |-> TRUE, left |-> SubSeq(s, 1, i - 1),
                right |-> SubSeq(s, i + 1, Len(s))]
          : i \in {IndexOf(s, chars)} })

\* the float written [-] ipart [. fpart] [e expo]
float_value(negative, ipart, fpart, has_exp, expo) ==
    LET edigits == Unsigned(expo)
        m == DigitsToInt(ipart \o fpart, 0)
        x == IF ~has_exp THEN 0
             ELSE IF Negative(expo) THEN 0 - DigitsToInt(edigits, 0)
             ELSE DigitsToInt(edigits, 0)
    IN IF /\ AllDigits(ipart) /\ AllDigits(fpart) /\ Len(ipart) + Len(fpart) > 0
          /\ has_exp => (edigits # <<>> /\ AllDigits(edigits))
       THEN [err |-> "none", val |-> Dec(IF negative THEN 0 - m ELSE m, x - Len(fpart))]
       ELSE [err |-> "ValueError"]

PyFloat(s) ==
    The({ The({ float_value(Negative(s), mant.left, mant.right, sci.found, sci.right)
                : mant \in {Split(sci.left, {"."})} })
          : sci \in {Split(Unsigned(s), {"e", "E"})} })

\* int(x) of a float: truncation toward zero
FloatToInt(d) ==
    IF d.e >= 0 THEN d.m * Pow10(d.e)
    ELSE IF d.m >= 0 THEN d.m \div Pow10(0 - d.e)
    ELSE 0 - ((0 - d.m) \div Pow10(0 - d.e))

-----------------------------------------------------------------------------
(* AST nodes                                                               *)

AnyType(line, column) == [kind |-> "AnyType", line |-> line, column |-> column]
BooleanType(line, column) == [kind |-> "BooleanType", line |-> line, column |-> column]
StringType(line, column, range) ==
    [kind |-> "StringType", line |-> line, column |-> column, range |-> range]
NumericType(line, column, type_name, range) ==
    [kind |-> "NumericType", line |-> line, column |-> column,
     type_name |-> type_name, range |-> range]
LiteralType(line, column, value) ==
    [kind |-> "LiteralType", line |-> line, column |-> column, value |-> value,
     type_name |-> None]
ListType(line, column, element_type, size_range) ==
    [kind |-> "ListType", line |-> line, column |-> column,
     element_type |-> element_type, size_range |-> size_range]
TupleType(line, column, element_types) ==
    [kind |-> "TupleType", line |-> line, column |-> column, element_types |-> element_types]
UnionType(line, column, types) ==
    [kind |-> "UnionType", line |-> line, column |-> column, types |-> types]
ReferenceType(line, column, path, type_args) ==
    [kind |-> "ReferenceType", line |-> line, column |-> column,
     path |-> path, type_args |-> type_args]
IndexedType(line, column, base_type, indices) ==
    [kind |-> "IndexedType", line |-> line, column |-> column,
     base_type |-> base_type, indices |-> indices]
NumberRange(min_value, max_value, min_exclusive, max_exclusive) ==
    [min_value |-> min_value, max_value |-> max_value,
     min_exclusive |-> min_exclusive, max_exclusive |-> max_exclusive]
StructField(name, type, optional, doc_comment) ==
    [name |-> name, type |-> type, optional |-> optional, doc_comment |-> doc_comment]
StructType(line, column, fields, spreads) ==
    [kind |-> "StructType", line |-> line, column |-> column,
     fields |-> fields, spreads |-> spreads]
EnumVariant(name, value, doc_comment) ==
    [name |-> name, value |-> value, doc_comment |-> doc_comment]
EnumType(line, column, variants) ==
    [kind |-> "EnumType", line |-> line, column |-> column, variants |-> variants]
TypeAlias(line, column, name, type_params, target_type, doc_comment) ==
    [kind |-> "TypeAlias", line |-> line, column |-> column, name |-> name,
     type_params |-> type_params, target_type |-> target_type, doc_comment |-> doc_comment]
UseStatement(line, column, path, alias) ==
    [kind |-> "UseStatement", line |-> line, column |-> column, path |-> path, alias |-> alias]
DispatchStatement(line, column, dispatcher, indices, target_type) ==
    [kind |-> "DispatchStatement", line |-> line, column |-> column,
     dispatcher |-> dispatcher, indices |-> indices, target_type |-> target_type]
Module(statements) ==
    [kind |-> "Module", line |-> 0, column |-> 0, statements |-> statements,
     doc_comments |-> <<>>]

\* Python values a LiteralType can hold
PyStr(s) == [py |-> "str", v |-> s]
PyBool(b) == [py |-> "bool", v |-> IF b THEN "True" ELSE "False"]

-----------------------------------------------------------------------------
(* Parser.  pos is the parser's index into tokens, counted from 0; the     *)
(* current token is tokens[pos + 1].  Every parse operator returns either  *)
(* [err |-> "none", val, pos] or the exception raised: a ParseError with   *)
(* the offending token, or the ValueError / AttributeError that escapes.   *)

NumberTokens == {"INTEGER", "FLOAT"}
NumericKeywords == {"BYTE", "SHORT", "INT", "LONG", "FLOAT_TYPE", "DOUBLE"}
SpecialKeys == {"FALLBACK", "NONE", "UNKNOWN", "KEY", "PARENT"}

current_token(tokens, pos) == tokens[pos + 1]

Ok(val, pos) == [err |-> "none", val |-> val, pos |-> pos]

Parser_error(tokens, pos, message) ==
    [err |-> "ParseError", message |-> message, token |-> current_token(tokens, pos)]

Raised(kind, tokens, pos) ==
    [err |-> kind, message |-> kind, token |-> current_token(tokens, pos)]

\* a loop whose turn ends at the position it began at: the condition and the
\* body of every loop of the parser read nothing but tokens and pos, so each
\* later turn is that turn again and the loop never ends
NonTermination(tokens, pos) == Raised("NonTermination", tokens, pos)

Parser_advance(tokens, pos) == IF pos < Len(tokens) - 1 THEN pos + 1 ELSE pos

match(tokens, pos, token_types) == current_token(tokens, pos).type \in token_types

consume(tokens, pos, token_type) ==
    IF current_token(tokens, pos).type # token_type
    THEN Parser_error(tokens, pos, "Expected " \o token_type)
    ELSE Ok(current_token(tokens, pos), Parser_advance(tokens, pos))

RECURSIVE skip_newlines(_, _)
skip_newlines(tokens, pos) ==
    IF match(tokens, pos, {"NEWLINE"})
    THEN The({ skip_newlines(tokens, next) : next \in {Parser_advance(tokens, pos)} })
    ELSE pos

RECURSIVE parse_path_loop(_, _, _)
parse_path_loop(tokens, pos, path) ==
    IF match(tokens, pos, {"DOUBLE_COLON"})
    THEN LET part == consume(tokens, Parser_advance(tokens, pos), "IDENTIFIER")
         IN IF part.err # "none" THEN part
            ELSE IF ~(part.pos > pos) THEN NonTermination(tokens, pos)
            ELSE parse_path_loop(tokens, part.pos, path \o "::" \o Str(part.val.value))
    ELSE Ok(path, pos)

parse_path(tokens, pos) ==
    LET first == consume(tokens, pos, "IDENTIFIER")
    IN IF first.err # "none" THEN first
       ELSE parse_path_loop(tokens, first.pos, Str(first.val.value))

\* the optional upper bound after a range operator
range_bound(tokens, pos) ==
    IF match(tokens, pos, NumberTokens)
    THEN The({ IF f.err # "none" THEN Raised("ValueError", tokens, pos)
               ELSE Ok(Some(f.val), Parser_advance(tokens, pos))
               : f \in {PyFloat(current_token(tokens, pos).value)} })
    ELSE Ok(None, pos)

\* the range once its lower bound and its operator are read
upper_bound(tokens, pos, min_value, min_exclusive, max_exclusive) ==
    The({ IF hi.err # "none" THEN hi
          ELSE Ok(NumberRange(min_value, hi.val, min_exclusive, max_exclusive), hi.pos)
          : hi \in {range_bound(tokens, pos)} })

parse_number_range(tokens, pos) ==
    IF match(tokens, pos, NumberTokens)
    THEN The({ IF lo.err # "none" THEN lo
               ELSE IF match(tokens, lo.pos, {"RANGE"})
               THEN upper_bound(tokens, Parser_advance(tokens, lo.pos), lo.val, FALSE, FALSE)
               ELSE IF match(tokens, lo.pos, {"RANGE_EXCLUSIVE"})
               THEN upper_bound(tokens, Parser_advance(tokens, lo.pos), lo.val, FALSE, TRUE)
               ELSE Ok(NumberRange(lo.val, None, FALSE, FALSE), lo.pos)
               : lo \in {range_bound(tokens, pos)} })
    ELSE IF match(tokens, pos, {"EXCLUSIVE_RANGE"})
    THEN upper_bound(tokens, Parser_advance(tokens, pos), None, TRUE, FALSE)
    ELSE IF match(tokens, pos, {"EXCLUSIVE_RANGE_EXCLUSIVE"})
    THEN upper_bound(tokens, Parser_advance(tokens, pos), None, TRUE, TRUE)
    ELSE Ok(NumberRange(None, None, FALSE, FALSE), pos)

\* the optional "@ range" after a string, numeric or list type
optional_range(tokens, pos) ==
    IF match(tokens, pos, {"AT"})
    THEN The({ IF r.err # "none" THEN r ELSE Ok(Some(r.val), r.pos)
               : r \in {parse_number_range(tokens, Parser_advance(tokens, pos))} })
    ELSE Ok(None, pos)

RECURSIVE parse_indexed_loop(_, _, _)
parse_indexed_loop(tokens, pos, indices) ==
    IF match(tokens, pos, {"LBRACKET"})
    THEN LET p1 == Parser_advance(tokens, pos)
         IN IF match(tokens, p1, {"IDENTIFIER"} \cup SpecialKeys)
            THEN The({ IF close.err # "none" THEN close
                       ELSE IF ~(close.pos > pos) THEN NonTermination(tokens, pos)
                       ELSE parse_indexed_loop(tokens, close.pos,
                                Append(indices, Str(current_token(tokens, p1).value)))
                       : close \in {consume(tokens, Parser_advance(tokens, p1), "RBRACKET")} })
            ELSE Parser_error(tokens, p1, "Expected index")
    ELSE Ok(indices, pos)

parse_indexed_type(tokens, pos, base_type) ==
    The({ IF r.err # "none" THEN r
          ELSE Ok(IndexedType(base_type.line, base_type.column, base_type, r.val), r.pos)
          : r \in {parse_indexed_loop(tokens, pos, <<>>)} })

RECURSIVE parse_type(_, _)
RECURSIVE parse_union_type(_, _)
RECURSIVE parse_union_loop(_, _, _)
RECURSIVE parse_primary_type(_, _)
RECURSIVE parse_list_type(_, _)
RECURSIVE parse_parenthesized_type(_, _)
RECURSIVE parse_tuple_loop(_, _, _)
RECURSIVE parse_reference_type(_, _)
RECURSIVE parse_type_args_loop(_, _, _)
RECURSIVE parse_struct(_, _)
RECURSIVE parse_struct_loop(_, _, _, _)

parse_type(tokens, pos) == parse_union_type(tokens, pos)

parse_union_loop(tokens, pos, types) ==
    IF match(tokens, pos, {"PIPE"})
    THEN The({ IF t.err # "none" THEN t
               ELSE IF ~(t.pos > pos) THEN NonTermination(tokens, pos)
               ELSE parse_union_loop(tokens, t.pos, Append(types, t.val))
               : t \in {parse_primary_type(tokens, Parser_advance(tokens, pos))} })
    ELSE Ok(types, pos)

parse_union_type(tokens, pos) ==
    The({ IF left.err # "none" THEN left
          ELSE IF match(tokens, left.pos, {"PIPE"})
          THEN The({ IF r.err # "none" THEN r
                     ELSE Ok(UnionType(left.val.line, left.val.column, r.val), r.pos)
                     : r \in {parse_union_loop(tokens, left.pos, <<left.val>>)} })
          ELSE left
          : left \in {parse_primary_type(tokens, pos)} })

parse_primary_type(tokens, pos) ==
    LET tk == current_token(tokens, pos)
        line == tk.line
        col == tk.column
        next == Parser_advance(tokens, pos)
    IN
    IF tk.type = "ANY" THEN Ok(AnyType(line, col), next)
    ELSE IF tk.type = "BOOLEAN_TYPE" THEN Ok(BooleanType(line, col), next)
    ELSE IF tk.type = "STRING_TYPE"
    THEN The({ IF r.err # "none" THEN r ELSE Ok(StringType(line, col, r.val), r.pos)
               : r \in {optional_range(tokens, next)} })
    ELSE IF tk.type \in NumericKeywords
    THEN The({ IF r.err # "none" THEN r
               ELSE Ok(NumericType(line, col, Str(tk.value), r.val), r.pos)
               : r \in {optional_range(tokens, next)} })
    ELSE IF tk.type \in NumberTokens THEN Ok(LiteralType(line, col, PyStr(Str(tk.value))), next)
    ELSE IF tk.type = "STRING" THEN Ok(LiteralType(line, col, PyStr(Str(tk.value))), next)
    ELSE IF tk.type = "BOOLEAN"
    THEN Ok(LiteralType(line, col, PyBool(Str(tk.value) = "true")), next)
    ELSE IF tk.type = "LBRACKET" THEN parse_list_type(tokens, pos)
    ELSE IF tk.type = "LPAREN" THEN parse_parenthesized_type(tokens, pos)
    ELSE IF tk.type = "LBRACE" THEN parse_struct(tokens, pos)
    ELSE IF tk.type = "IDENTIFIER" THEN parse_reference_type(tokens, pos)
    ELSE Parser_error(tokens, pos, "Unexpected token in type")

parse_list_type(tokens, pos) ==
    LET tk == current_token(tokens, pos) IN
    The({ IF open.err # "none" THEN open ELSE
      The({ IF element_type.err # "none" THEN element_type ELSE
        The({ IF close.err # "none" THEN close ELSE
          The({ IF r.err # "none" THEN r
                ELSE Ok(ListType(tk.line, tk.column, element_type.val, r.val), r.pos)
                : r \in {optional_range(tokens, close.pos)} })
          : close \in {consume(tokens, element_type.pos, "RBRACKET")} })
        : element_type \in {parse_type(tokens, open.pos)} })
      : open \in {consume(tokens, pos, "LBRACKET")} })

parse_tuple_loop(tokens, pos, types) ==
    IF match(tokens, pos, {"COMMA"})
    THEN LET p1 == Parser_advance(tokens, pos)
         IN IF ~match(tokens, p1, {"RPAREN"})
            THEN The({ IF t.err # "none" THEN t
                       ELSE IF ~(t.pos > pos) THEN NonTermination(tokens, pos)
                       ELSE parse_tuple_loop(tokens, t.pos, Append(types, t.val))
                       : t \in {parse_type(tokens, p1)} })
            ELSE IF ~(p1 > pos) THEN NonTermination(tokens, pos)
            ELSE parse_tuple_loop(tokens, p1, types)
    ELSE Ok(types, pos)

\* parse_parenthesized_type without the grouping branch: a parenthesized
\* single type is a tuple of one element
parse_parenthesized_type_AlwaysTuple(tokens, pos) ==
    The({ IF open.err # "none" THEN open
          ELSE IF match(tokens, open.pos, {"RPAREN"})
          THEN LET after == Parser_advance(tokens, open.pos)
               IN Ok(TupleType(current_token(tokens, after).line,
                               current_token(tokens, after).column, <<>>), after)
          ELSE
      The({ IF first_type.err # "none" THEN first_type ELSE
          The({ IF r.err # "none" THEN r ELSE
             The({ IF close.err # "none" THEN close
                   ELSE Ok(TupleType(first_type.val.line, first_type.val.column,
                                     r.val), close.pos)
                   : close \in {consume(tokens, r.pos, "RPAREN")} })
             : r \in {parse_tuple_loop(tokens, first_type.pos, <<first_type.val>>)} })
          : first_type \in {parse_type(tokens, open.pos)} })
          : open \in {consume(tokens, pos, "LPAREN")} })

parse_parenthesized_type(tokens, pos) ==
    The({ IF open.err # "none" THEN open
          ELSE IF match(tokens, open.pos, {"RPAREN"})
          THEN LET after == Parser_advance(tokens, open.pos)
               IN Ok(TupleType(current_token(tokens, after).line,
                               current_token(tokens, after).column, <<>>), after)
          ELSE
      The({ IF first_type.err # "none" THEN first_type
            ELSE IF match(tokens, first_type.pos, {"COMMA"})
            THEN The({ IF r.err # "none" THEN r ELSE
                   The({ IF close.err # "none" THEN close
                         ELSE Ok(TupleType(first_type.val.line, first_type.val.column,
                                           r.val), close.pos)
                         : close \in {consume(tokens, r.pos, "RPAREN")} })
                   : r \in {parse_tuple_loop(tokens, first_type.pos, <<first_type.val>>)} })
            ELSE The({ IF close.err # "none" THEN close
                       ELSE Ok(first_type.val, close.pos)
                       : close \in {consume(tokens, first_type.pos, "RPAREN")} })
            : first_type \in {parse_type(tokens, open.pos)} })
          : open \in {consume(tokens, pos, "LPAREN")} })

parse_type_args_loop(tokens, pos, type_args) ==
    IF ~match(tokens, pos, {"RANGLE"})
    THEN The({ IF t.err # "none" THEN t
               ELSE IF match(tokens, t.pos, {"COMMA"})
               THEN IF ~(Parser_advance(tokens, t.pos) > pos) THEN NonTermination(tokens, pos)
                    ELSE parse_type_args_loop(tokens, Parser_advance(tokens, t.pos),
                                              Append(type_args, t.val))
               ELSE IF ~match(tokens, t.pos, {"RANGLE"})
               THEN Parser_error(tokens, t.pos, "Expected ',' or '>' in type arguments")
               ELSE IF ~(t.pos > pos) THEN NonTermination(tokens, pos)
               ELSE parse_type_args_loop(tokens, t.pos, Append(type_args, t.val))
               : t \in {parse_type(tokens, pos)} })
    ELSE Ok(type_args, pos)

\* the optional "<...>" after the path of a reference
parse_type_args(tokens, pos) ==
    IF match(tokens, pos, {"LANGLE"})
    THEN The({ IF r.err # "none" THEN r ELSE
           The({ IF close.err # "none" THEN close ELSE Ok(r.val, close.pos)
                 : close \in {consume(tokens, r.pos, "RANGLE")} })
           : r \in {parse_type_args_loop(tokens, Parser_advance(tokens, pos), <<>>)} })
    ELSE Ok(<<>>, pos)

parse_reference_type(tokens, pos) ==
    LET tk == current_token(tokens, pos) IN
    The({ IF path.err # "none" THEN path ELSE
      The({ IF args.err # "none" THEN args
            ELSE IF match(tokens, args.pos, {"LBRACKET"})
            THEN parse_indexed_type(tokens, args.pos,
                     ReferenceType(tk.line, tk.column, path.val, args.val))
            ELSE Ok(ReferenceType(tk.line, tk.column, path.val, args.val), args.pos)
            : args \in {parse_type_args(tokens, path.pos)} })
      : path \in {parse_path(tokens, pos)} })

\* "# Optional comma" and the skip_newlines that end one turn of a body loop
after_item(tokens, pos) ==
    skip_newlines(tokens,
        IF match(tokens, pos, {"COMMA"}) THEN Parser_advance(tokens, pos) ELSE pos)

\* the leading skip_newlines and the optional doc comment of a field or variant:
\* start is the position after the newlines, pos the one after the doc comment
item_start(tokens, pos) ==
    The({ IF match(tokens, p1, {"DOC_COMMENT"})
          THEN [start |-> p1, doc |-> Some(Str(current_token(tokens, p1).value)),
                pos |-> skip_newlines(tokens, Parser_advance(tokens, p1))]
          ELSE [start |-> p1, doc |-> None, pos |-> p1]
          : p1 \in {skip_newlines(tokens, pos)} })

\* a regular field, from its name on
parse_field(tokens, pos, field_doc) ==
    The({ IF field_name.err # "none" THEN field_name ELSE
      LET optional == match(tokens, field_name.pos, {"QUESTION"})
          p3 == IF optional THEN Parser_advance(tokens, field_name.pos) ELSE field_name.pos
      IN
      The({ IF colon.err # "none" THEN colon ELSE
        The({ IF field_type.err # "none" THEN field_type
              ELSE Ok(StructField(Str(field_name.val.value), field_type.val, optional,
                                  field_doc),
                      field_type.pos)
              : field_type \in {parse_type(tokens, colon.pos)} })
        : colon \in {consume(tokens, p3, "COLON")} })
      : field_name \in {consume(tokens, pos, "IDENTIFIER")} })

parse_struct_loop(tokens, pos, fields, spreads) ==
    IF match(tokens, pos, {"RBRACE"}) THEN Ok([fields |-> fields, spreads |-> spreads], pos)
    ELSE
    The({ IF match(tokens, it.start, {"RBRACE"})
          THEN Ok([fields |-> fields, spreads |-> spreads], it.start)
          ELSE IF match(tokens, it.pos, {"ELLIPSIS"})
          THEN The({ IF spread_type.err # "none" THEN spread_type
                     ELSE IF ~(after_item(tokens, spread_type.pos) > pos)
                     THEN NonTermination(tokens, pos)
                     ELSE parse_struct_loop(tokens, after_item(tokens, spread_type.pos),
                              fields, Append(spreads, spread_type.val))
                     : spread_type \in {parse_type(tokens, Parser_advance(tokens, it.pos))} })
          ELSE The({ IF field.err # "none" THEN field
                     ELSE IF ~(after_item(tokens, field.pos) > pos)
                     THEN NonTermination(tokens, pos)
                     ELSE parse_struct_loop(tokens, after_item(tokens, field.pos),
                              Append(fields, field.val), spreads)
                     : field \in {parse_field(tokens, it.pos, it.doc)} })
          : it \in {item_start(tokens, pos)} })

parse_struct(tokens, pos) ==
    LET tk == current_token(tokens, pos) IN
    The({ IF kw.err # "none" THEN kw ELSE
      The({ IF open.err # "none" THEN open ELSE
        The({ IF body.err # "none" THEN body ELSE
          The({ IF close.err # "none" THEN close
                ELSE Ok(StructType(tk.line, tk.column, body.val.fields, body.val.spreads),
                        close.pos)
                : close \in {consume(tokens, body.pos, "RBRACE")} })
          : body \in {parse_struct_loop(tokens, open.pos, <<>>, <<>>)} })
        : open \in {consume(tokens, kw.pos, "LBRACE")} })
      : kw \in {consume(tokens, pos, "STRUCT")} })

\* the optional "= value" of a variant: int() of the INTEGER token's text
variant_value(tokens, pos) ==
    IF match(tokens, pos, {"EQUALS"})
    THEN LET p3 == Parser_advance(tokens, pos) IN
         IF ~match(tokens, p3, {"INTEGER"})
         THEN Parser_error(tokens, p3, "Expected integer value for enum variant")
         ELSE The({ IF n.err # "none" THEN Raised("ValueError", tokens, p3)
                    ELSE Ok(Some(n.val), Parser_advance(tokens, p3))
                    : n \in {PyInt(current_token(tokens, p3).value)} })
    ELSE Ok(None, pos)

RECURSIVE parse_enum_loop(_, _, _)
parse_enum_loop(tokens, pos, variants) ==
    IF match(tokens, pos, {"RBRACE"}) THEN Ok(variants, pos)
    ELSE
    The({ IF match(tokens, it.start, {"RBRACE"}) THEN Ok(variants, it.start) ELSE
      The({ IF variant_name.err # "none" THEN variant_name ELSE
        The({ IF value.err # "none" THEN value
              ELSE IF ~(after_item(tokens, value.pos) > pos) THEN NonTermination(tokens, pos)
              ELSE parse_enum_loop(tokens, after_item(tokens, value.pos),
                       Append(variants, EnumVariant(Str(variant_name.val.value),
                                                    value.val, it.doc)))
              : value \in {variant_value(tokens, variant_name.pos)} })
        : variant_name \in {consume(tokens, it.pos, "IDENTIFIER")} })
      : it \in {item_start(tokens, pos)} })

parse_enum(tokens, pos) ==
    LET tk == current_token(tokens, pos) IN
    The({ IF kw.err # "none" THEN kw ELSE
      The({ IF open.err # "none" THEN open ELSE
        The({ IF body.err # "none" THEN body ELSE
          The({ IF close.err # "none" THEN close
                ELSE Ok(EnumType(tk.line, tk.column, body.val), close.pos)
                : close \in {consume(tokens, body.pos, "RBRACE")} })
          : body \in {parse_enum_loop(tokens, open.pos, <<>>)} })
        : open \in {consume(tokens, kw.pos, "LBRACE")} })
      : kw \in {consume(tokens, pos, "ENUM")} })

RECURSIVE parse_type_params_loop(_, _, _)
parse_type_params_loop(tokens, pos, type_params) ==
    IF ~match(tokens, pos, {"RANGLE"})
    THEN The({ IF param.err # "none" THEN param
               ELSE IF match(tokens, param.pos, {"COMMA"})
               THEN IF ~(Parser_advance(tokens, param.pos) > pos)
                    THEN NonTermination(tokens, pos)
                    ELSE parse_type_params_loop(tokens, Parser_advance(tokens, param.pos),
                                                Append(type_params, Str(param.val.value)))
               ELSE IF ~match(tokens, param.pos, {"RANGLE"})
               THEN Parser_error(tokens, param.pos, "Expected ',' or '>' in type parameters")
               ELSE IF ~(param.pos > pos) THEN NonTermination(tokens, pos)
               ELSE parse_type_params_loop(tokens, param.pos,
                                           Append(type_params, Str(param.val.value)))
               : param \in {consume(tokens, pos, "IDENTIFIER")} })
    ELSE Ok(type_params, pos)

\* the optional "<...>" after the name of a type alias
parse_type_params(tokens, pos) ==
    IF match(tokens, pos, {"LANGLE"})
    THEN The({ IF r.err # "none" THEN r ELSE
           The({ IF close.err # "none" THEN close ELSE Ok(r.val, close.pos)
                 : close \in {consume(tokens, r.pos, "RANGLE")} })
           : r \in {parse_type_params_loop(tokens, Parser_advance(tokens, pos), <<>>)} })
    ELSE Ok(<<>>, pos)

parse_type_alias(tokens, pos) ==
    LET tk == current_token(tokens, pos) IN
    The({ IF kw.err # "none" THEN kw ELSE
      The({ IF name.err # "none" THEN name ELSE
        The({ IF params.err # "none" THEN params ELSE
          The({ IF eq.err # "none" THEN eq ELSE
            The({ IF target_type.err # "none" THEN target_type
                  ELSE Ok(TypeAlias(tk.line, tk.column, Str(name.val.value), params.val,
                                    target_type.val, None), target_type.pos)
                  : target_type \in {parse_type(tokens, eq.pos)} })
            : eq \in {consume(tokens, params.pos, "EQUALS")} })
          : params \in {parse_type_params(tokens, name.pos)} })
        : name \in {consume(tokens, kw.pos, "IDENTIFIER")} })
      : kw \in {consume(tokens, pos, "TYPE")} })

\* TokenType has no member AS: evaluating TokenType.AS raises AttributeError
parse_use_statement(tokens, pos) ==
    The({ IF kw.err # "none" THEN kw ELSE
      The({ IF path.err # "none" THEN path
            ELSE Raised("AttributeError", tokens, path.pos)
            : path \in {parse_path(tokens, kw.pos)} })
      : kw \in {consume(tokens, pos, "USE")} })

RECURSIVE parse_dispatch_indices_loop(_, _, _)
parse_dispatch_indices_loop(tokens, pos, indices) ==
    IF ~match(tokens, pos, {"RBRACKET"})
    THEN IF match(tokens, pos, {"IDENTIFIER"})
         THEN LET p1 == Parser_advance(tokens, pos)
                  more == Append(indices, Str(current_token(tokens, pos).value))
              IN IF match(tokens, p1, {"COMMA"})
                 THEN IF ~(Parser_advance(tokens, p1) > pos) THEN NonTermination(tokens, pos)
                      ELSE parse_dispatch_indices_loop(tokens, Parser_advance(tokens, p1),
                                                       more)
                 ELSE IF ~match(tokens, p1, {"RBRACKET"})
                 THEN Parser_error(tokens, p1, "Expected ',' or ']' in dispatch indices")
                 ELSE IF ~(p1 > pos) THEN NonTermination(tokens, pos)
                 ELSE parse_dispatch_indices_loop(tokens, p1, more)
         ELSE Parser_error(tokens, pos, "Expected identifier in dispatch indices")
    ELSE Ok(indices, pos)

\* the optional "[...]" after the dispatcher of a dispatch statement
parse_dispatch_indices(tokens, pos) ==
    IF match(tokens, pos, {"LBRACKET"})
    THEN The({ IF r.err # "none" THEN r ELSE
           The({ IF close.err # "none" THEN close ELSE Ok(r.val, close.pos)
                 : close \in {consume(tokens, r.pos, "RBRACKET")} })
           : r \in {parse_dispatch_indices_loop(tokens, Parser_advance(tokens, pos), <<>>)} })
    ELSE Ok(<<>>, pos)

parse_dispatch_statement(tokens, pos) ==
    LET tk == current_token(tokens, pos) IN
    The({ IF kw.err # "none" THEN kw ELSE
      The({ IF dispatcher.err # "none" THEN dispatcher ELSE
        The({ IF indices.err # "none" THEN indices ELSE
          The({ IF to.err # "none" THEN to ELSE
            The({ IF target_type.err # "none" THEN target_type
                  ELSE Ok(DispatchStatement(tk.line, tk.column, Str(dispatcher.val.value),
                                            indices.val, target_type.val), target_type.pos)
                  : target_type \in {parse_type(tokens, to.pos)} })
            : to \in {consume(tokens, indices.pos, "TO")} })
          : indices \in {parse_dispatch_indices(tokens, dispatcher.pos)} })
        : dispatcher \in {consume(tokens, kw.pos, "IDENTIFIER")} })
      : kw \in {consume(tokens, pos, "DISPATCH")} })

RECURSIVE collect_doc_lines(_, _, _)
collect_doc_lines(tokens, pos, doc_lines) ==
    IF match(tokens, pos, {"DOC_COMMENT"})
    THEN The({ collect_doc_lines(tokens, next,
                                 Append(doc_lines, Str(current_token(tokens, pos).value)))
               : next \in {Parser_advance(tokens, pos)} })
    ELSE [doc_lines |-> doc_lines, pos |-> pos]

RECURSIVE join_lines(_)
join_lines(doc_lines) ==
    IF doc_lines = <<>> THEN ""
    ELSE IF Len(doc_lines) = 1 THEN doc_lines[1]
    ELSE doc_lines[1] \o "\n" \o join_lines(Tail(doc_lines))

\* "# Collect doc comments": current_doc and the position after it
collect_doc(tokens, pos) ==
    IF match(tokens, pos, {"DOC_COMMENT"})
    THEN The({ [current_doc |-> Some(join_lines(docs.doc_lines)),
                pos |-> skip_newlines(tokens, docs.pos)]
               : docs \in {collect_doc_lines(tokens, pos, <<>>)} })
    ELSE [current_doc |-> None, pos |-> pos]

\* "if current_doc: stmt.doc_comment = current_doc"
with_doc(r, current_doc) ==
    IF r.err = "none" /\ current_doc # None /\ current_doc # Some("")
    THEN Ok([r.val EXCEPT !.doc_comment = current_doc], r.pos)
    ELSE r

\* the statement at the current token
parse_statement(tokens, pos, current_doc) ==
    IF match(tokens, pos, {"STRUCT"}) THEN parse_struct(tokens, pos)
    ELSE IF match(tokens, pos, {"ENUM"}) THEN parse_enum(tokens, pos)
    ELSE IF match(tokens, pos, {"TYPE"})
    THEN with_doc(parse_type_alias(tokens, pos), current_doc)
    ELSE IF match(tokens, pos, {"USE"}) THEN parse_use_statement(tokens, pos)
    ELSE IF match(tokens, pos, {"DISPATCH"}) THEN parse_dispatch_statement(tokens, pos)
    ELSE Parser_error(tokens, pos, "Unexpected token")

\* the parser in the while loop of parse_module; done once the loop is left
Parsing(pos, statements, done) ==
    [err |-> "none", pos |-> pos, statements |-> statements, done |-> done]

\* one turn of the while loop of parse_module: the turn that finds EOF,
\* before or after the newlines, leaves the loop; an exception ends the parser
parse_module_turn(tokens, S) ==
    IF S.err # "none" \/ S.done THEN S
    ELSE IF match(tokens, S.pos, {"EOF"}) THEN Parsing(S.pos, S.statements, TRUE)
    ELSE
    The({ IF match(tokens, p1, {"EOF"}) THEN Parsing(p1, S.statements, TRUE) ELSE
      The({
        The({ IF stmt.err # "none" THEN stmt
              ELSE Parsing(skip_newlines(tokens, stmt.pos),
                           Append(S.statements, stmt.val), FALSE)
              : stmt \in {parse_statement(tokens, doc.pos, doc.current_doc)} })
        : doc \in {collect_doc(tokens, p1)} })
      : p1 \in {skip_newlines(tokens, S.pos)} })

RECURSIVE parse_module_loop(_, _)
parse_module_loop(tokens, S) ==
    IF S.err # "none" THEN S
    ELSE IF S.done THEN Ok(Module(S.statements), S.pos)
    ELSE The({ IF next.err = "none" /\ ~next.done /\ ~(next.pos > S.pos)
               THEN NonTermination(tokens, S.pos)
               ELSE parse_module_loop(tokens, next)
               : next \in {parse_module_turn(tokens, S)} })

parse_module(tokens) == parse_module_loop(tokens, Parsing(0, <<>>, FALSE))

-----------------------------------------------------------------------------
(* JSONSchemaGenerator.  A schema is the dict convert_type builds; JSON    *)
(* false is PyBool(FALSE), an enum member is a tagged Python value.        *)

EmptyDict == [k \in {} |-> {}]

DictSet(d, k, v) == [x \in (DOMAIN d) \cup {k} |-> IF x = k THEN v ELSE d[x]]

\* d.get(k): Some(d[k]), or None for a key d lacks
Get(d, k) == IF k \in DOMAIN d THEN <<d[k]>> ELSE None

PyNum(n) == [py |-> "int", v |-> n]

RECURSIVE struct_properties(_, _)
RECURSIVE convert_type(_)
RECURSIVE convert_types(_)

\* range_keys with the two bounds taken one for the other
range_keys_Swapped(range, min_key, max_key) ==
    (IF range.max_value # None THEN (min_key :> FloatToInt(range.max_value[1])) ELSE EmptyDict)
    @@ (IF range.min_value # None THEN (max_key :> FloatToInt(range.min_value[1])) ELSE EmptyDict)

range_keys(range, min_key, max_key) ==
    (IF range.min_value # None THEN (min_key :> FloatToInt(range.min_value[1])) ELSE EmptyDict)
    @@ (IF range.max_value # None THEN (max_key :> FloatToInt(range.max_value[1])) ELSE EmptyDict)

numeric_keys(range) ==
    (IF range.min_value # None
     THEN ((IF range.min_exclusive THEN "exclusiveMinimum" ELSE "minimum")
              :> range.min_value[1])
     ELSE EmptyDict)
    @@ (IF range.max_value # None
        THEN ((IF range.max_exclusive THEN "exclusiveMaximum" ELSE "maximum")
                 :> range.max_value[1])
        ELSE EmptyDict)

\* required_fields without the test of "if not field.optional": every field
\* is required
required_fields_All(fields) == fields

required_fields(fields) ==
    SelectSeq(fields, LAMBDA f : ~f.optional)

field_names(fields) == [i \in DOMAIN fields |-> fields[i].name]

struct_properties(fields, properties) ==
    IF fields = <<>> THEN properties
    ELSE struct_properties(Tail(fields),
             DictSet(properties, Head(fields).name, convert_type(Head(fields).type)))

\* enum_values with any() for all(): an integer enum as soon as one variant
\* carries a value
enum_values_Any(variants) ==
    IF \E i \in DOMAIN variants : variants[i].value # None
    THEN [i \in DOMAIN variants |->
             IF variants[i].value # None THEN PyNum(variants[i].value[1])
             ELSE PyStr(variants[i].name)]
    ELSE [i \in DOMAIN variants |-> PyStr(variants[i].name)]

enum_values(variants) ==
    IF \A i \in DOMAIN variants : variants[i].value # None
    THEN [i \in DOMAIN variants |-> PyNum(variants[i].value[1])]
    ELSE [i \in DOMAIN variants |-> PyStr(variants[i].name)]

literal_schema(type_node) == ("const" :> type_node.value)

\* "type", "properties" and, when some field is required, "required"
object_schema(properties, required) ==
    ("type" :> "object") @@ ("properties" :> properties)
    @@ (IF required # <<>> THEN ("required" :> required) ELSE EmptyDict)

\* struct_schema with the spreads before the local struct
struct_schema_SpreadsFirst(type_node) ==
    The({ IF type_node.spreads # <<>>
          THEN ("allOf" :> (convert_types(type_node.spreads) \o <<local>>))
          ELSE local @@ ("additionalProperties" :> PyBool(FALSE))
          : local \in {object_schema(struct_properties(type_node.fields, EmptyDict),
                                     field_names(required_fields(type_node.fields)))} })

struct_schema(type_node) ==
    The({ IF type_node.spreads # <<>>
          THEN ("allOf" :> (<<local>> \o convert_types(type_node.spreads)))
          ELSE local @@ ("additionalProperties" :> PyBool(FALSE))
          : local \in {object_schema(struct_properties(type_node.fields, EmptyDict),
                                     field_names(required_fields(type_node.fields)))} })

\* [self.convert_type(t) for t in types]
convert_types(types) ==
    IF types = <<>> THEN <<>>
    ELSE <<convert_type(Head(types))>> \o convert_types(Tail(types))

convert_type(type_node) ==
    CASE type_node.kind = "AnyType" -> EmptyDict
      [] type_node.kind = "BooleanType" -> ("type" :> "boolean")
      [] type_node.kind = "StringType" ->
            ("type" :> "string")
            @@ (IF type_node.range # None
                THEN range_keys(type_node.range[1], "minLength", "maxLength")
                ELSE EmptyDict)
      [] type_node.kind = "NumericType" ->
            ("type" :> (IF type_node.type_name \in {"float", "double"}
                        THEN "number" ELSE "integer"))
            @@ (IF type_node.range # None THEN numeric_keys(type_node.range[1])
                ELSE EmptyDict)
      [] type_node.kind = "LiteralType" -> literal_schema(type_node)
      [] type_node.kind = "ListType" ->
            ("type" :> "array") @@ ("items" :> convert_type(type_node.element_type))
            @@ (IF type_node.size_range # None
                THEN range_keys(type_node.size_range[1], "minItems", "maxItems")
                ELSE EmptyDict)
      [] type_node.kind = "TupleType" ->
            ("type" :> "array")
            @@ ("prefixItems" :> convert_types(type_node.element_types))
            @@ ("items" :> PyBool(FALSE))
      [] type_node.kind = "UnionType" -> ("anyOf" :> convert_types(type_node.types))
      [] type_node.kind = "StructType" -> struct_schema(type_node)
      [] type_node.kind = "EnumType" -> ("enum" :> enum_values(type_node.variants))
      [] type_node.kind = "ReferenceType" -> ("$ref" :> ("#/definitions/" \o type_node.path))
      [] type_node.kind = "IndexedType" -> convert_type(type_node.base_type)
      [] OTHER -> EmptyDict

\* id(stmt): the address of the statement object, one per live statement
id(ids, i) == ids[i]

struct_name(ids, i) == "Struct_" \o ToString(id(ids, i))
enum_name(ids, i) == "Enum_" \o ToString(id(ids, i))

SCHEMA_URI == "https://json-schema.org/draft/2020-12/schema"

RECURSIVE generate_loop(_, _, _, _, _)
generate_loop(statements, i, ids, definitions, typedefs) ==
    IF i > Len(statements)
    THEN [definitions |-> definitions, type_definitions |-> typedefs]
    ELSE LET stmt == statements[i] IN
         IF stmt.kind = "TypeAlias"
         THEN generate_loop(statements, i + 1, ids,
                  DictSet(definitions, stmt.name, convert_type(stmt.target_type)),
                  DictSet(typedefs, stmt.name, stmt))
         ELSE IF stmt.kind = "StructType"
         THEN generate_loop(statements, i + 1, ids,
                  DictSet(definitions, struct_name(ids, i), convert_type(stmt)), typedefs)
         ELSE IF stmt.kind = "EnumType"
         THEN generate_loop(statements, i + 1, ids,
                  DictSet(definitions, enum_name(ids, i), convert_type(stmt)), typedefs)
         ELSE generate_loop(statements, i + 1, ids, definitions, typedefs)

generate_schema(module, ids, typedefs) ==
    The({ [schema |-> ("$schema" :> SCHEMA_URI) @@ ("type" :> "object")
                          @@ ("definitions" :> r.definitions),
           type_definitions |-> r.type_definitions]
          : r \in {generate_loop(module.statements, 1, ids, EmptyDict, typedefs)} })

-----------------------------------------------------------------------------
(* McdocCompiler                                                           *)

\* compile_file up to the parse: the tokens of the text and its Module
front(text) ==
    The({ IF lexed.err # "none"
          THEN [error |-> lexed.err, tokens |-> None, module |-> None] ELSE
      The({ IF parsed.err # "none"
            THEN [error |-> parsed.err, tokens |-> Some(lexed.tokens), module |-> None]
            ELSE [error |-> "none", tokens |-> Some(lexed.tokens),
                  module |-> Some(parsed.val)]
            : parsed \in {parse_module(lexed.tokens)} })
      : lexed \in {tokenize(text)} })

\* open(input_file) and the front end: an unreadable file raises OSError
read_front(text, readable) ==
    IF readable THEN front(text)
    ELSE [error |-> "OSError", tokens |-> None, module |-> None]

\* handler with "except (LexerError, ParseError)" narrowed to LexerError and no
\* "except Exception": a ParseError escapes compile_file
handler_LexerErrorOnly(error) ==
    IF error = "none" THEN "none"
    ELSE IF error = "LexerError" THEN "Error compiling"
    ELSE "uncaught"

\* the except clause of compile_file that catches an exception of kind error:
\* every kind raised here is an Exception, so none is left "uncaught"
handler(error) ==
    IF error = "none" THEN "none"
    ELSE IF error \in {"LexerError", "ParseError"} THEN "Error compiling"
    ELSE "Unexpected error compiling"

compile_file(text, readable, ids, typedefs) ==
    The({ IF fr.error = "none"
          THEN The({ [schema |-> g.schema, type_definitions |-> g.type_definitions,
                      error |-> "none", tokens |-> fr.tokens, module |-> fr.module,
                      raised |-> FALSE]
                     : g \in {generate_schema(fr.module[1], ids, typedefs)} })
          ELSE [schema |-> EmptyDict, type_definitions |-> typedefs,
                error |-> fr.error, tokens |-> fr.tokens, module |-> None,
                raised |-> handler(fr.error) = "uncaught"]
          : fr \in {read_front(text, readable)} })

\* the top-level statements generate_schema names by id()
IdStatements(text, readable) ==
    The({ IF fr.error # "none" THEN {}
          ELSE {i \in DOMAIN fr.module[1].statements :
                   fr.module[1].statements[i].kind \in {"StructType", "EnumType"}}
          : fr \in {read_front(text, readable)} })

-----------------------------------------------------------------------------
(* Bounds of the model                                                     *)

MaxFiles == 2
MaxFaults == 1
MaxAddr == 2

Addr == 1..MaxAddr

\* the addresses the live statement objects of one module can have
IdChoices(S) == {ids \in [S -> Addr] : \A i, j \in S : i # j => ids[i] # ids[j]}

-----------------------------------------------------------------------------
(* The directory walk of compile_directory.  tree is the input tree in the *)
(* order rglob yields it; a file's relative path is its index.  output is  *)
(* the output tree: relative path -> the document json.dump wrote.         *)

WalkSources ==
    {<<"t", "y", "p", "e", " ", "A", " ", "=", " ", "i", "n", "t">>,
     <<"t", "y", "p", "e", " ", "A", " ", "=", " ", "s", "t", "r", "i", "n", "g">>,
     <<"s", "t", "r", "u", "c", "t", " ", "{", " ", "x", ":", " ", "i", "n", "t", " ", "}">>,
     <<"e", "n", "u", "m", " ", "{", " ", "A", " ", "}">>,
     <<"t", "y", "p", "e", " ", "A", " ", "=", " ", "$">>,
     <<"t", "y", "p", "e", " ", "A", " ", "=">>}

RECURSIVE SeqsUpTo(_, _)
SeqsUpTo(S, n) ==
    IF n = 0 THEN {<<>>}
    ELSE LET shorter == SeqsUpTo(S, n - 1)
         IN shorter \cup {Append(q, x) : q \in {r \in shorter : Len(r) = n - 1}, x \in S}

NoLast == [file |-> 0, error |-> "none", tokens |-> None, module |-> None]

InitWalk(t, unread, unwrit, g) ==
    /\ tree = t
    /\ unreadable = unread
    /\ unwritable = unwrit
    /\ pc = "walk"
    /\ idx = 1
    /\ output = EmptyDict
    /\ log = <<>>
    /\ type_definitions = EmptyDict
    /\ schema_cache = EmptyDict
    /\ last = NoLast
    /\ run = 1
    /\ first_output = EmptyDict
    /\ given = g
    /\ lexer = None
    /\ parser = None

Init ==
    \E t \in SeqsUpTo(WalkSources, MaxFiles) \ {<<>>} :
      \E unread \in SUBSET (1..Len(t)) :
        \E unwrit \in SUBSET (1..Len(t)) :
          /\ Cardinality(unread) + Cardinality(unwrit) <= MaxFaults
          /\ InitWalk(t, unread, unwrit, [family |-> "tree"])

LogLines(i, error, generated) ==
    <<[event |-> "Compiling", file |-> i, error |-> "none"]>>
    \o (IF error # "none" THEN <<[event |-> handler(error), file |-> i, error |-> error]>>
        ELSE <<>>)
    \o (IF generated THEN <<[event |-> "Generated", file |-> i, error |-> "none"]>> ELSE <<>>)

\* one iteration of the loop of compile_directory: compile_file, then the write
Iterate ==
    /\ pc = "walk"
    /\ idx <= Len(tree)
    /\ idx \notin unwritable
    /\ \E ids \in IdChoices(IdStatements(tree[idx], idx \notin unreadable)) :
         \E r \in {compile_file(tree[idx], idx \notin unreadable, ids, type_definitions)} :
            /\ ~r.raised
            /\ output' = DictSet(output, idx, r.schema)
            /\ type_definitions' = r.type_definitions
            /\ last' = [file |-> idx, error |-> r.error, tokens |-> r.tokens,
                         module |-> r.module]
            /\ log' = log \o LogLines(idx, r.error, TRUE)
    /\ idx' = idx + 1
    /\ UNCHANGED <<tree, unreadable, unwritable, pc, schema_cache, run, first_output,
                   given, lexer, parser>>

\* the iteration that raises, out of compile_file or out of open(output_file, 'w'):
\* nothing in compile_directory or main catches it
IterateRaises ==
    /\ pc = "walk"
    /\ idx <= Len(tree)
    /\ \E ids \in IdChoices(IdStatements(tree[idx], idx \notin unreadable)) :
         \E r \in {compile_file(tree[idx], idx \notin unreadable, ids, type_definitions)} :
            /\ r.raised \/ idx \in unwritable
            /\ type_definitions' = r.type_definitions
            /\ last' = [file |-> idx, error |-> r.error, tokens |-> r.tokens,
                         module |-> r.module]
            /\ log' = log \o LogLines(idx, r.error, FALSE)
    /\ pc' = "crashed"
    /\ UNCHANGED <<tree, unreadable, unwritable, idx, output, schema_cache, run,
                   first_output, given, lexer, parser>>

\* the loop is exhausted: compile_directory returns
Finish ==
    /\ pc = "walk"
    /\ idx > Len(tree)
    /\ pc' = "done"
    /\ UNCHANGED <<tree, unreadable, unwritable, idx, output, log, type_definitions,
                   schema_cache, last, run, first_output, given, lexer, parser>>

\* main() is run again on the same input tree, into a fresh output directory
Rerun ==
    /\ pc \in {"done", "crashed"}
    /\ run = 1
    /\ run' = 2
    /\ first_output' = output
    /\ output' = EmptyDict
    /\ pc' = "walk"
    /\ idx' = 1
    /\ log' = <<>>
    /\ type_definitions' = EmptyDict
    /\ last' = NoLast
    /\ UNCHANGED <<tree, unreadable, unwritable, schema_cache, given, lexer, parser>>

Next == Iterate \/ IterateRaises \/ Finish \/ Rerun

Spec == Init /\ [][Next]_vars

-----------------------------------------------------------------------------
(* Claims about the directory walk, checked under Spec                     *)

\* the documents compile_file returns for a text compiled on its own, by a
\* generator that has compiled nothing before
CompiledAlone(text) ==
    {compile_file(text, TRUE, ids, EmptyDict).schema :
        ids \in IdChoices(IdStatements(text, TRUE))}

\* C1: running compile_directory twice on the same input tree gives identical
\* output trees: when the second run has ended, its output tree is the first's.
C1_Idempotent ==
    (run = 2 /\ pc \in {"done", "crashed"}) => output = first_output

\* C2: a LexerError or ParseError is fatal for its file only.  The walk never
\* ends on an exception because of one (it can only where the output path is
\* unwritable); every file the walk has passed has its output written, whether
\* it failed or not, so that the walk that ends normally has written them all;
\* and the output of a file that lexes and parses is the document of that
\* file, whatever failed before it.
C2_LexParseErrorIsFileScoped ==
    /\ pc = "crashed" => idx \in unwritable
    /\ DOMAIN output = 1..(idx - 1)
    /\ \A i \in DOMAIN output :
          (i \notin unreadable /\ front(tree[i]).error = "none")
              => output[i] \in CompiledAlone(tree[i])

\* C2 witness: a walk that ended normally although its first file failed with
\* a ParseError or LexerError, the second file compiled and written
C2_Witness ==
    /\ pc = "done" /\ Len(tree) = 2
    /\ unreadable = {} /\ unwritable = {}
    /\ front(tree[1]).error \in {"LexerError", "ParseError"}
    /\ front(tree[2]).error = "none"
    /\ "A" \in DOMAIN Get(output[2], "definitions")[1]

\* C3: an I/O error is fatal for the affected file only: when the batch has
\* ended, every file that is readable and whose output path is writable has
\* its output written.
C3_IOErrorIsFileScoped ==
    pc \in {"done", "crashed"} =>
        \A j \in 1..Len(tree) :
            (j \notin unreadable /\ j \notin unwritable) => j \in DOMAIN output

\* C4: every output document written carries a $schema key and a definitions
\* map, the document of a file that failed to lex or parse included.
C4_DocumentShape ==
    \A i \in DOMAIN output : {"$schema", "definitions"} \subseteq DOMAIN output[i]

\* C5: the document of a file depends only on the file's content (two files of
\* the same content get the same document, whatever was compiled before
\* them), and each input file yields exactly one output document.
C5_FilesIndependent ==
    /\ \A i, j \in DOMAIN output : tree[i] = tree[j] => output[i] = output[j]
    /\ pc \in {"done", "crashed"} => DOMAIN output = 1..Len(tree)

-----------------------------------------------------------------------------
(* Source texts written from parameters.  Each family below compiles a     *)
(* tree of one readable, writable file whose text is written from the      *)
(* parameters kept in given, so that what the compiler emits can be        *)
(* compared with what the parameters say.                                  *)

RECURSIVE NatChars(_)
NatChars(n) ==
    IF n < 10 THEN <<DigitSeq[n + 1]>>
    ELSE NatChars(n \div 10) \o <<DigitSeq[(n % 10) + 1]>>

IntChars(n) == IF n < 0 THEN <<"-">> \o NatChars(0 - n) ELSE NatChars(n)

RECURSIVE Concat(_)
Concat(parts) == IF parts = <<>> THEN <<>> ELSE Head(parts) \o Concat(Tail(parts))

RECURSIVE JoinWith(_, _)
JoinWith(parts, sep) ==
    IF parts = <<>> THEN <<>>
    ELSE IF Len(parts) = 1 THEN parts[1]
    ELSE parts[1] \o sep \o JoinWith(Tail(parts), sep)

TypeA == <<"t", "y", "p", "e", " ", "A", " ", "=", " ">>

\* a one-file tree compiled from start to end
NextUnit == Iterate \/ Finish

\* the file of a one-file tree has been compiled and written without error
Compiled == idx > 1 /\ last.error = "none" /\ 1 \in DOMAIN output

\* the definitions of the document written for the file, {} when there is none
Definitions ==
    IF 1 \in DOMAIN output /\ "definitions" \in DOMAIN output[1]
    THEN output[1]["definitions"] ELSE EmptyDict

-----------------------------------------------------------------------------
(* Ranges: "type A = <host> @ <range>", the range written in one of the    *)
(* shapes below from the number literals N and M.                          *)

MaxWhole == 5

\* a plain decimal literal: an optional "-", a whole part and an optional
\* fraction of one digit
Literals == [neg : BOOLEAN, whole : 0..MaxWhole, frac : {"", "0", "5"}]

LiteralChars(x) ==
    (IF x.neg THEN <<"-">> ELSE <<>>) \o NatChars(x.whole)
    \o (IF x.frac = "" THEN <<>> ELSE <<".", x.frac>>)

\* the number a literal denotes, in tenths
Tenths(x) ==
    (IF x.neg THEN 0 - 1 ELSE 1) * (10 * x.whole + (IF x.frac = "5" THEN 5 ELSE 0))

IsInteger(x) == x.frac # "5"

RangeShapes ==
    {<<"N", "..", "M">>, <<"N", "..<", "M">>, <<"<..", "M">>, <<"<..<", "M">>,
     <<"..", "M">>, <<"..<", "M">>, <<"N">>, <<"N", "..">>, <<"N", "..<">>}

OperatorChars(op) ==
    CASE op = ".." -> <<".", ".">>
      [] op = "..<" -> <<".", ".", "<">>
      [] op = "<.." -> <<"<", ".", ".">>
      [] op = "<..<" -> <<"<", ".", ".", "<">>

RangeChars(shape, N, M) ==
    Concat([i \in DOMAIN shape |->
               IF shape[i] = "N" THEN LiteralChars(N)
               ELSE IF shape[i] = "M" THEN LiteralChars(M)
               ELSE OperatorChars(shape[i])])

Hosts == {"[int]", "int", "double"}

HostChars(host) ==
    CASE host = "[int]" -> <<"[", "i", "n", "t", "]">>
      [] host = "int" -> <<"i", "n", "t">>
      [] host = "double" -> <<"d", "o", "u", "b", "l", "e">>

RangeSource(g) ==
    TypeA \o HostChars(g.host) \o <<" ", "@", " ">> \o RangeChars(g.shape, g.N, g.M)

Uses(shape, part) == \E i \in DOMAIN shape : shape[i] = part

\* a literal the shape does not use is left at zero
InitRange ==
    \E host \in Hosts, shape \in RangeShapes, N \in Literals, M \in Literals :
        /\ Uses(shape, "N") \/ N = [neg |-> FALSE, whole |-> 0, frac |-> ""]
        /\ Uses(shape, "M") \/ M = [neg |-> FALSE, whole |-> 0, frac |-> ""]
        /\ InitWalk(<<RangeSource([host |-> host, shape |-> shape, N |-> N, M |-> M])>>,
                    {}, {},
                    [family |-> "range", host |-> host, shape |-> shape, N |-> N, M |-> M])

SpecRange == InitRange /\ [][NextUnit]_vars

\* the schema emitted for type A, {} when the file did not compile
SchemaA == IF "A" \in DOMAIN Definitions THEN Definitions["A"] ELSE EmptyDict

\* schema[k] is the number of x tenths: an int for the size keys of a list, a
\* float for the keys of a numeric type
HasNumber(schema, k, x) ==
    /\ k \in DOMAIN schema
    /\ IF given.host = "[int]" THEN 10 * schema[k] = x
       ELSE schema[k] = Dec(x, 0 - 1)

\* the keys of the lower and the upper bound of the host, inclusive and exclusive
LowerKey == IF given.host = "[int]" THEN "minItems" ELSE "minimum"
UpperKey == IF given.host = "[int]" THEN "maxItems" ELSE "maximum"
ExclusiveKeys == {"exclusiveMinimum", "exclusiveMaximum"}

\* a number of tenths truncated toward zero to a whole number, in tenths
Truncated(x) == IF x >= 0 THEN 10 * (x \div 10) ELSE 0 - 10 * ((0 - x) \div 10)

InclusiveDone == pc = "done" /\ given.shape = <<"N", "..", "M">>

C7_OmittedLowerBound ==
    (pc = "done" /\ given.shape \in {<<"..<", "M">>, <<"..", "M">>}) =>
        /\ Compiled
        /\ DOMAIN SchemaA \cap {"minimum", "exclusiveMinimum", "minItems"} = {}
        /\ given.host = "[int]" => "maxItems" \in DOMAIN SchemaA
        /\ given.host # "[int]" =>
              HasNumber(SchemaA,
                        IF given.shape[1] = "..<" THEN "exclusiveMaximum" ELSE "maximum",
                        Tenths(given.M))

\* the target type the parser gave type A, None when the file did not parse
TargetA ==
    IF last.module = None THEN None ELSE <<last.module[1].statements[1].target_type>>

\* the NumberRange parse_number_range returned for the "@ range" of type A:
\* the range of a numeric type, the size_range of a list
RangeA ==
    IF TargetA = None THEN None
    ELSE IF TargetA[1].kind = "ListType" THEN TargetA[1].size_range
    ELSE TargetA[1].range

BareNumberParsed == idx > 1 /\ given.shape = <<"N">>

\* C16: a range consisting of a bare number N with no range operator parses
\* to a closed single point: parse_number_range returns a NumberRange with
\* min_value = max_value = N and both exclusivity flags false.
C16_BareNumberIsPoint ==
    BareNumberParsed =>
        RangeA = Some(NumberRange(Some(Dec(Tenths(given.N), 0 - 1)),
                                  Some(Dec(Tenths(given.N), 0 - 1)), FALSE, FALSE))

\* what parse_number_range returns for a bare number: the lower bound alone
C16_BareNumberIsLowerBound ==
    BareNumberParsed =>
        RangeA = Some(NumberRange(Some(Dec(Tenths(given.N), 0 - 1)), None, FALSE, FALSE))

-----------------------------------------------------------------------------
(* Enums: "enum { A = 1, B }", the variants named A, B, ... in order, each *)
(* with an explicit integer value or none, separated by commas or newlines *)

MaxVariants == 3
MaxEnumInt == 1

VariantValues == {None} \cup {<<n>> : n \in (0 - MaxEnumInt)..MaxEnumInt}

Separators == {<<",", " ">>, <<NL>>}

VariantChars(values, i) ==
    <<UpperSeq[i]>>
    \o (IF values[i] # None THEN <<" ", "=", " ">> \o IntChars(values[i][1]) ELSE <<>>)

EnumSource(g) ==
    <<"e", "n", "u", "m", " ", "{", " ">>
    \o JoinWith([i \in DOMAIN g.values |-> VariantChars(g.values, i)], g.sep)
    \o <<" ", "}">>

InitEnum ==
    \E values \in SeqsUpTo(VariantValues, MaxVariants), sep \in Separators :
        InitWalk(<<EnumSource([values |-> values, sep |-> sep])>>, {}, {},
                 [family |-> "enum", values |-> values, sep |-> sep])

SpecEnum == InitEnum /\ [][NextUnit]_vars

\* the schema of the one definition of the document, {} when there is not one
OnlySchema ==
    IF Cardinality(DOMAIN Definitions) = 1
    THEN The({Definitions[k] : k \in DOMAIN Definitions}) ELSE EmptyDict

\* C8: if every variant carries an explicit integer value the emitted enum list
\* is the list of those integers in declaration order; if at least one variant
\* has no explicit value the emitted enum list is the list of the variant
\* names in declaration order.
C8_EnumKind ==
    pc = "done" =>
        /\ Compiled
        /\ DOMAIN OnlySchema = {"enum"}
        /\ (\A i \in DOMAIN given.values : given.values[i] # None) =>
              OnlySchema["enum"] = [i \in DOMAIN given.values |-> PyNum(given.values[i][1])]
        /\ (\E i \in DOMAIN given.values : given.values[i] = None) =>
              OnlySchema["enum"] = [i \in DOMAIN given.values |-> PyStr(UpperSeq[i])]

\* C8 witness: an enum mixing a variant with a value and one without has been
\* compiled to the list of its names
C8_Witness ==
    /\ pc = "done" /\ Compiled
    /\ Len(given.values) = 2
    /\ given.values[1] = <<1>> /\ given.values[2] = None
    /\ Get(OnlySchema, "enum") = <<(<<PyStr("A"), PyStr("B")>>)>>

-----------------------------------------------------------------------------
(* Structs: "struct { a: int, ...Base, c?: string }", the items being      *)
(* fields, named a, b, ... by their place, and spreads                     *)

MaxItems == 3

Items ==
    [kind : {"field"}, optional : BOOLEAN, type : {"int", "string"}]
    \cup [kind : {"spread"}, path : {"Base", "Other"}]

WordChars(w) ==
    CASE w = "int" -> <<"i", "n", "t">>
      [] w = "string" -> <<"s", "t", "r", "i", "n", "g">>
      [] w = "Base" -> <<"B", "a", "s", "e">>
      [] w = "Other" -> <<"O", "t", "h", "e", "r">>

ItemChars(items, i) ==
    IF items[i].kind = "spread" THEN <<".", ".", ".">> \o WordChars(items[i].path)
    ELSE <<LowerSeq[i]>> \o (IF items[i].optional THEN <<"?">> ELSE <<>>)
         \o <<":", " ">> \o WordChars(items[i].type)

StructSource(g) ==
    <<"s", "t", "r", "u", "c", "t", " ", "{", " ">>
    \o JoinWith([i \in DOMAIN g.items |-> ItemChars(g.items, i)], <<",", " ">>)
    \o <<" ", "}">>

InitStruct ==
    \E items \in SeqsUpTo(Items, MaxItems) :
        InitWalk(<<StructSource([items |-> items])>>, {}, {},
                 [family |-> "struct", items |-> items])

SpecStruct == InitStruct /\ [][NextUnit]_vars

\* the places of the fields and of the spreads among the items, in order
FieldPlaces(items) == SelectSeq([i \in DOMAIN items |-> i], LAMBDA i : items[i].kind = "field")
SpreadPlaces(items) == SelectSeq([i \in DOMAIN items |-> i], LAMBDA i : items[i].kind = "spread")
RequiredPlaces(items) ==
    SelectSeq(FieldPlaces(items), LAMBDA i : ~items[i].optional)

\* the local struct the items declare: its properties and its required list
LocalStruct(items) ==
    ("type" :> "object")
    @@ ("properties" :>
            [n \in {LowerSeq[i] : i \in {j \in DOMAIN items : items[j].kind = "field"}} |->
                ("type" :> (IF items[CHOOSE i \in DOMAIN items : LowerSeq[i] = n].type = "int"
                            THEN "integer" ELSE "string"))])
    @@ (IF RequiredPlaces(items) # <<>>
        THEN ("required" :> [k \in DOMAIN RequiredPlaces(items) |->
                                LowerSeq[RequiredPlaces(items)[k]]])
        ELSE EmptyDict)

\* C9: a struct with at least one spread emits allOf whose first branch is the
\* local struct (its own properties and required list) and whose following
\* branches are the schemas of the spread types, one per spread, in the order
\* the spreads were written, wherever they appear among the fields.
C9_StructSpread ==
    (pc = "done" /\ SpreadPlaces(given.items) # <<>>) =>
        /\ Compiled
        /\ DOMAIN OnlySchema = {"allOf"}
        /\ OnlySchema["allOf"] =
              <<LocalStruct(given.items)>>
              \o [k \in DOMAIN SpreadPlaces(given.items) |->
                     ("$ref" :> ("#/definitions/"
                                 \o given.items[SpreadPlaces(given.items)[k]].path))]

\* C9 witness: "struct { ...Base, b: int, ...Other }" has been compiled to an
\* allOf of three branches, the first one the local struct holding b
C9_Witness ==
    /\ pc = "done" /\ Compiled
    /\ Len(given.items) = 3
    /\ given.items[1] = [kind |-> "spread", path |-> "Base"]
    /\ given.items[2] = [kind |-> "field", optional |-> FALSE, type |-> "int"]
    /\ given.items[3] = [kind |-> "spread", path |-> "Other"]
    /\ "allOf" \in DOMAIN OnlySchema
    /\ Len(OnlySchema["allOf"]) = 3
    /\ DOMAIN OnlySchema["allOf"][1]["properties"] = {"b"}
    /\ OnlySchema["allOf"][1]["required"] = <<"b">>

\* the object schema of the struct itself: the only schema of the document,
\* or the first branch of its allOf when the struct has spreads
StructObject ==
    IF "allOf" \in DOMAIN OnlySchema THEN OnlySchema["allOf"][1] ELSE OnlySchema

\* C11: for every struct, the emitted required list consists of exactly the
\* names of the fields not marked optional with "?", in declaration order;
\* every name in required is a key of properties; and the required key is
\* absent when every field is optional.
C11_RequiredFields ==
    pc = "done" =>
        /\ Compiled
        /\ "properties" \in DOMAIN StructObject
        /\ Get(StructObject, "required") =
              IF RequiredPlaces(given.items) = <<>> THEN None
              ELSE <<[k \in DOMAIN RequiredPlaces(given.items) |->
                        LowerSeq[RequiredPlaces(given.items)[k]]]>>
        /\ "required" \in DOMAIN StructObject =>
              \A k \in DOMAIN StructObject["required"] :
                  StructObject["required"][k] \in DOMAIN StructObject["properties"]

\* C11 witness: "struct { a: int, b?: string, c: string }" has been compiled:
\* required is a and c, and the optional b is a property all the same
C11_Witness ==
    /\ pc = "done" /\ Compiled
    /\ Len(given.items) = 3
    /\ given.items[1] = [kind |-> "field", optional |-> FALSE, type |-> "int"]
    /\ given.items[2] = [kind |-> "field", optional |-> TRUE, type |-> "string"]
    /\ given.items[3] = [kind |-> "field", optional |-> FALSE, type |-> "string"]
    /\ Get(StructObject, "required") = <<(<<"a", "c">>)>>
    /\ DOMAIN StructObject["properties"] = {"a", "b", "c"}

\* C11 second witness case: a struct whose fields are all optional has been
\* compiled without a required key
C11_AllOptionalCompiled ==
    /\ pc = "done" /\ Compiled
    /\ Len(given.items) = 2
    /\ \A i \in DOMAIN given.items :
          given.items[i].kind = "field" /\ given.items[i].optional
    /\ "required" \notin DOMAIN StructObject
    /\ DOMAIN StructObject["properties"] = {"a", "b"}

-----------------------------------------------------------------------------
(* Literal types: "type Color = "red" | "green" | true", a union of quoted *)
(* string literals and boolean literals, or one such literal alone         *)

MaxMembers == 3

Members == {"red", "green", "blue", "true", "false"}

IsBoolean(m) == m \in {"true", "false"}

MemberChars(m) ==
    CASE m = "red" -> <<"\"", "r", "e", "d", "\"">>
      [] m = "green" -> <<"\"", "g", "r", "e", "e", "n", "\"">>
      [] m = "blue" -> <<"\"", "b", "l", "u", "e", "\"">>
      [] m = "true" -> <<"t", "r", "u", "e">>
      [] m = "false" -> <<"f", "a", "l", "s", "e">>

LiteralSource(g) ==
    <<"t", "y", "p", "e", " ", "C", "o", "l", "o", "r", " ", "=", " ">>
    \o JoinWith([i \in DOMAIN g.members |-> MemberChars(g.members[i])], <<" ", "|", " ">>)

InitLiteral ==
    \E members \in SeqsUpTo(Members, MaxMembers) \ {<<>>} :
        InitWalk(<<LiteralSource([members |-> members])>>, {}, {},
                 [family |-> "literal", members |-> members])

SpecLiteral == InitLiteral /\ [][NextUnit]_vars

\* the schema the claim gives a literal: its value and its inferred JSON type
ConstWithType(m) ==
    IF IsBoolean(m) THEN ("const" :> PyBool(m = "true")) @@ ("type" :> "boolean")
    ELSE ("const" :> PyStr(m)) @@ ("type" :> "string")

\* C10: a quoted string literal type or boolean literal type emits a schema
\* with const set to the literal value and type set to the inferred JSON type;
\* a union of literals yields under the alias's key an anyOf of one such
\* branch per literal.
C10_LiteralConstWithType ==
    pc = "done" =>
        /\ Compiled
        /\ "Color" \in DOMAIN Definitions
        /\ Definitions["Color"] =
              IF Len(given.members) = 1 THEN ConstWithType(given.members[1])
              ELSE ("anyOf" :> [i \in DOMAIN given.members |->
                                  ConstWithType(given.members[i])])

-----------------------------------------------------------------------------
(* Cross-file references: a tree of two files, a.mcdoc declaring            *)
(* "type Foo = int" and b.mcdoc holding a struct with a field f of type     *)
(* Foo, where Foo is either imported with "use a::Foo" or declared in b     *)

MaxNames == 3

TypeNames == <<"Foo", "Bar", "Baz", "Qux", "Zed">>

TypeNameChars(name) ==
    CASE name = "Foo" -> <<"F", "o", "o">>
      [] name = "Bar" -> <<"B", "a", "r">>
      [] name = "Baz" -> <<"B", "a", "z">>
      [] name = "Qux" -> <<"Q", "u", "x">>
      [] name = "Zed" -> <<"Z", "e", "d">>

DeclarationChars(name, target) ==
    <<"t", "y", "p", "e", " ">> \o TypeNameChars(name) \o <<" ", "=", " ">>
    \o WordChars(target)

UseSource(g) ==
    (IF g.imported THEN <<"u", "s", "e", " ", "a", ":", ":">> \o TypeNameChars(g.name)
     ELSE DeclarationChars(g.name, g.target))
    \o <<NL>> \o <<"s", "t", "r", "u", "c", "t", " ", "{", " ", "f">>
    \o (IF g.optional THEN <<"?">> ELSE <<>>)
    \o <<":", " ">> \o TypeNameChars(g.name) \o <<" ", "}">>

InitUse ==
    \E i \in 1..MaxNames, target \in {"int", "string"}, imported \in BOOLEAN,
       optional \in BOOLEAN :
        \E g \in {[family |-> "use", name |-> TypeNames[i], target |-> target,
                    imported |-> imported, optional |-> optional]} :
            InitWalk(<<DeclarationChars(g.name, g.target), UseSource(g)>>, {}, {}, g)

SpecUse == InitUse /\ [][NextUnit]_vars

\* the definitions of the document written for file i, {} when there is none
DefinitionsOf(i) ==
    IF i \in DOMAIN output /\ "definitions" \in DOMAIN output[i]
    THEN output[i]["definitions"] ELSE EmptyDict

\* some struct of the document of file i has a property f with this schema
FieldResolvesTo(i, schema) ==
    \E k \in DOMAIN DefinitionsOf(i) :
        /\ "properties" \in DOMAIN DefinitionsOf(i)[k]
        /\ Get(DefinitionsOf(i)[k]["properties"], "f") = <<schema>>

\* C12: when file a declares a type Foo and file b contains "use a::Foo" and
\* a struct field of type Foo, the document emitted for b resolves that field
\* to a $ref pointing at a.json#/definitions/Foo, while a reference to a type
\* declared in the same file emits the bare fragment #/definitions/Foo.
C12_CrossFileReference ==
    pc = "done" =>
        FieldResolvesTo(2, "$ref" :> ((IF given.imported THEN "a.json" ELSE "")
                                         \o "#/definitions/" \o given.name))

\* the same-file half of C12 alone, which the code satisfies
C12_SameFileReference ==
    (pc = "done" /\ ~given.imported) =>
        FieldResolvesTo(2, "$ref" :> ("#/definitions/" \o given.name))

\* what the code does with the import: the document of b is empty, the
\* AttributeError of parse_use_statement caught by compile_file
C12_ImportFails ==
    (pc = "done" /\ given.imported) =>
        /\ output[2] = EmptyDict
        /\ last.error = "AttributeError"

-----------------------------------------------------------------------------
(* Version gating: "struct { a: int #[since="1.1"] #[until="1.2"] }", one   *)
(* field carrying a since attribute, an until attribute, both or none,     *)
(* written after the field or before it                                    *)

MaxVersion == 2

\* the versions 1.1, 1.2, ... by their minor number
Versions == 1..MaxVersion

AttributeChars(key, version) ==
    IF version = None THEN <<>>
    ELSE <<" ", "#", "[">> \o key \o <<"=", "\"", "1", ".">> \o NatChars(version[1])
         \o <<"\"", "]">>

AttributesChars(g) ==
    AttributeChars(<<"s", "i", "n", "c", "e">>, g.since)
    \o AttributeChars(<<"u", "n", "t", "i", "l">>, g.until)

GateSource(g) ==
    <<"s", "t", "r", "u", "c", "t", " ", "{">>
    \o (IF g.place = "before" THEN AttributesChars(g) ELSE <<>>)
    \o <<" ", "a">> \o (IF g.optional THEN <<"?">> ELSE <<>>)
    \o <<":", " ">> \o WordChars(g.type)
    \o (IF g.place = "after" THEN AttributesChars(g) ELSE <<>>)
    \o <<" ", "}">>

Attributed(g) == g.since # None \/ g.until # None

\* a field without attribute has no place for one: it is left at "after"
InitGate ==
    \E since \in {None} \cup {<<v>> : v \in Versions},
       until \in {None} \cup {<<v>> : v \in Versions},
       place \in {"before", "after"}, optional \in BOOLEAN, type \in {"int", "string"} :
        \E g \in {[family |-> "gate", since |-> since, until |-> until, place |-> place,
                    optional |-> optional, type |-> type]} :
            /\ Attributed(g) \/ place = "after"
            /\ InitWalk(<<GateSource(g)>>, {}, {}, g)

SpecGate == InitGate /\ [][NextUnit]_vars

\* the field is included for target version V: since is absent or V >= since,
\* and until is absent or V < until
Included(g, V) ==
    /\ g.since = None \/ V >= g.since[1]
    /\ g.until = None \/ V < g.until[1]

\* C13: a struct field carrying #[since="S"] and/or #[until="U"] is included
\* in the emitted properties for target version V if and only if (since is
\* absent or V >= S) and (until is absent or V < U); a file containing such an
\* attributed field still compiles.
C13_VersionGating ==
    (pc = "done" /\ Attributed(given)) =>
        /\ Compiled
        /\ "properties" \in DOMAIN OnlySchema
        /\ \A V \in Versions :
              "a" \in DOMAIN OnlySchema["properties"] <=> Included(given, V)

\* what the code does with an attributed field: "#" is lexed to a HASH token
\* and parse_struct raises ParseError on it
C13_AttributeIsParseError ==
    (pc = "done" /\ Attributed(given)) =>
        /\ last.error = "ParseError"
        /\ output[1] = EmptyDict

\* a field without attribute compiles and is emitted
C13_PlainFieldEmitted ==
    (pc = "done" /\ ~Attributed(given)) =>
        /\ Compiled
        /\ DOMAIN OnlySchema["properties"] = {"a"}

-----------------------------------------------------------------------------
(* Modules: a file of statements, one per line, each of one of the kinds   *)
(* below; a statement that declares a name declares Foo, Bar, ... by its   *)
(* place in the file                                                       *)

MaxStatements == 2

StatementKinds ==
    {"alias", "suffixed", "struct", "named_struct", "enum", "suffixed_enum",
     "dispatch", "use", "broken"}

StatementChars(kind, name) ==
    CASE kind = "alias" -> DeclarationChars(name, "int")
      [] kind = "suffixed" ->
            DeclarationChars(name, "int") \o <<" ", "@", " ", "1", "b", ".", ".", "2", "d">>
      [] kind = "struct" -> StructSource([items |-> <<[kind |-> "field", optional |-> FALSE,
                                                      type |-> "int"]>>])
      [] kind = "named_struct" ->
            <<"s", "t", "r", "u", "c", "t", " ">> \o TypeNameChars(name)
            \o <<" ", "{", " ", "a", ":", " ", "i", "n", "t", " ", "}">>
      [] kind = "enum" -> EnumSource([values |-> <<None>>, sep |-> <<NL>>])
      [] kind = "suffixed_enum" ->
            <<"e", "n", "u", "m", " ", "{", " ", "A", " ", "=", " ", "1", "b", " ", "}">>
      [] kind = "dispatch" ->
            <<"d", "i", "s", "p", "a", "t", "c", "h", " ", "d", " ", "t", "o", " ", "i", "n", "t">>
      [] kind = "use" -> <<"u", "s", "e", " ", "a", ":", ":">> \o TypeNameChars(name)
      [] kind = "broken" -> <<"t", "y", "p", "e", " ">> \o TypeNameChars(name) \o <<" ", "=">>

ModuleSource(g) ==
    JoinWith([i \in DOMAIN g.kinds |-> StatementChars(g.kinds[i], TypeNames[i])], <<NL>>)

InitModule ==
    \E kinds \in SeqsUpTo(StatementKinds, MaxStatements) \ {<<>>} :
        InitWalk(<<ModuleSource([kinds |-> kinds])>>, {}, {},
                 [family |-> "module", kinds |-> kinds])

SpecModule == InitModule /\ [][NextUnit]_vars

\* the file has been through compile_file and the lexer has given its tokens
Lexed == idx > 1 /\ last.tokens # None

\* C14: for every token sequence produced by the lexer, parse_module either
\* returns a Module or fails with ParseError; it never fails with any other
\* kind of error, in particular not on a use statement, nor on a range bound
\* or enum value written as a suffixed number such as 1b or 2d.
C14_ParserContract ==
    Lexed => \/ last.error = "none" /\ last.module # None
             \/ last.error = "ParseError"

\* what the statements without "use" and without a suffixed number do: the
\* parser returns a Module or raises ParseError
C14_ContractElsewhere ==
    (Lexed /\ \A i \in DOMAIN given.kinds :
                  given.kinds[i] \notin {"use", "suffixed", "suffixed_enum"})
        => last.error \in {"none", "ParseError"}

\* the places of the statements that declare a struct, an enum or a type
\* alias, and those among them that declare it under a name
Declaring(kinds) ==
    {i \in DOMAIN kinds :
        kinds[i] \in {"alias", "suffixed", "struct", "named_struct", "enum",
                      "suffixed_enum", "broken"}}
Named(kinds) ==
    {i \in DOMAIN kinds : kinds[i] \in {"alias", "suffixed", "named_struct", "broken"}}

\* C15: the definitions map of an emitted document holds one entry per
\* struct, enum and type alias declared in the module, each keyed by its
\* declared name; dispatch and use statements add no entry.
C15_DefinitionsMap ==
    (pc = "done" /\ \A i \in DOMAIN given.kinds :
                        given.kinds[i] \notin {"suffixed", "suffixed_enum", "broken"}) =>
        /\ Compiled
        /\ Cardinality(DOMAIN Definitions) = Cardinality(Declaring(given.kinds))
        /\ \A i \in Named(given.kinds) : TypeNames[i] \in DOMAIN Definitions

\* what the code does for aliases, dispatch statements and structs and enums
\* without a name: one entry per declaration, an alias under its name
C15_AnonymousAndAliases ==
    (pc = "done" /\ \A i \in DOMAIN given.kinds :
                        given.kinds[i] \in {"alias", "struct", "enum", "dispatch"}) =>
        /\ Compiled
        /\ Cardinality(DOMAIN Definitions) = Cardinality(Declaring(given.kinds))
        /\ \A i \in Named(given.kinds) : TypeNames[i] \in DOMAIN Definitions

-----------------------------------------------------------------------------
(* Operators and numbers: a file whose text is any string of the           *)
(* characters below, up to MaxChars of them                                 *)

MaxChars == 5

LexAlphabet == {"1", ".", "<", ":"}

InitLex ==
    \E text \in SeqsUpTo(LexAlphabet, MaxChars) \ {<<>>} :
        InitWalk(<<text>>, {}, {}, [family |-> "lex"])

SpecLex == InitLex /\ [][NextUnit]_vars

\* the operators written with the characters ".", "<" and ":", compound or not
OperatorTable ==
    {[text |-> <<"<", ".", ".", "<">>, type |-> "EXCLUSIVE_RANGE_EXCLUSIVE"],
     [text |-> <<"<", ".", ".">>, type |-> "EXCLUSIVE_RANGE"],
     [text |-> <<".", ".", "<">>, type |-> "RANGE_EXCLUSIVE"],
     [text |-> <<".", ".", ".">>, type |-> "ELLIPSIS"],
     [text |-> <<".", ".">>, type |-> "RANGE"],
     [text |-> <<":", ":">>, type |-> "DOUBLE_COLON"],
     [text |-> <<".">>, type |-> "DOT"],
     [text |-> <<":">>, type |-> "COLON"],
     [text |-> <<"<">>, type |-> "LANGLE"]}

RangeOperators ==
    {op \in OperatorTable :
        op.type \in {"RANGE", "RANGE_EXCLUSIVE", "EXCLUSIVE_RANGE", "EXCLUSIVE_RANGE_EXCLUSIVE"}}

IsPrefixAt(word, text, i) ==
    /\ i + Len(word) - 1 <= Len(text)
    /\ SubSeq(text, i, i + Len(word) - 1) = word

\* the longest operator of the table that the text holds at place i
LongestOperator(text, i) ==
    CHOOSE op \in OperatorTable :
        /\ IsPrefixAt(op.text, text, i)
        /\ \A other \in OperatorTable :
              IsPrefixAt(other.text, text, i) => Len(other.text) <= Len(op.text)

\* the length of the run of digits the text holds from place i
RECURSIVE DigitRun(_, _)
DigitRun(text, i) ==
    IF i <= Len(text) /\ isdigit(text[i]) THEN 1 + DigitRun(text, i + 1) ELSE 0

\* a decimal point at place i: a "." not followed by a second "."
IsDecimalPoint(text, i) ==
    /\ i <= Len(text) /\ text[i] = "."
    /\ ~(i + 1 <= Len(text) /\ text[i + 1] = ".")

\* the length of the number that starts at the digit at place i: its digits
\* and, after a decimal point, its fraction digits
NumberLength(text, i) ==
    IF IsDecimalPoint(text, i + DigitRun(text, i))
    THEN DigitRun(text, i) + 1 + DigitRun(text, i + DigitRun(text, i) + 1)
    ELSE DigitRun(text, i)

\* the tokens of the text from place i on, by maximal munch: their types and
\* their texts
RECURSIVE MaximalMunch(_, _)
MaximalMunch(text, i) ==
    IF i > Len(text) THEN <<[type |-> "EOF", value |-> <<>>]>>
    ELSE IF isdigit(text[i])
    THEN <<[type |-> IF NumberLength(text, i) = DigitRun(text, i) THEN "INTEGER" ELSE "FLOAT",
            value |-> SubSeq(text, i, i + NumberLength(text, i) - 1)]>>
         \o MaximalMunch(text, i + NumberLength(text, i))
    ELSE <<[type |-> LongestOperator(text, i).type, value |-> LongestOperator(text, i).text]>>
         \o MaximalMunch(text, i + Len(LongestOperator(text, i).text))

\* the types and texts of the tokens the lexer gave for the file
TokensLexed ==
    [k \in DOMAIN last.tokens[1] |->
        [type |-> last.tokens[1][k].type, value |-> last.tokens[1][k].value]]

Digits(n) == [k \in 1..n |-> "1"]

\* C17: maximal munch in the lexer.  At every position the longest compound
\* operator is emitted as one token ("<..<" over "<..", "..<" over "..",
\* "..." over ".." over ".", "::" over ":"); a digit string immediately
\* followed by ".." lexes as an INTEGER followed by a range operator, never
\* as a FLOAT that swallows the first dot; so N..M, N..<M, <..M and <..<M
\* each lex to the number tokens and exactly one range-operator token.
C17_MaximalMunch ==
    idx > 1 =>
        /\ Lexed
        /\ TokensLexed = MaximalMunch(tree[1], 1)
        /\ \A k \in DOMAIN TokensLexed :
              (TokensLexed[k].type = "FLOAT" /\ TokensLexed[k + 1].type # "EOF")
                  => ~(TokensLexed[k].value[Len(TokensLexed[k].value)] = "."
                       /\ TokensLexed[k + 1].value[1] = ".")
        /\ \A op \in RangeOperators, n \in 0..MaxChars, m \in 1..MaxChars :
              /\ n >= 1 \/ op.text[1] = "<"
              /\ tree[1] = Digits(n) \o op.text \o Digits(m)
              => TokensLexed =
                    (IF n >= 1 THEN <<[type |-> "INTEGER", value |-> Digits(n)]>> ELSE <<>>)
                    \o <<[type |-> op.type, value |-> op.text],
                         [type |-> "INTEGER", value |-> Digits(m)],
                         [type |-> "EOF", value |-> <<>>]>>

\* C17 witness: "1..<1" has been lexed to INTEGER, RANGE_EXCLUSIVE, INTEGER
\* and EOF
C17_Witness ==
    /\ Lexed
    /\ tree[1] = <<"1", ".", ".", "<", "1">>
    /\ [k \in DOMAIN last.tokens[1] |-> last.tokens[1][k].type]
          = <<"INTEGER", "RANGE_EXCLUSIVE", "INTEGER", "EOF">>

-----------------------------------------------------------------------------
(* Parentheses: "type A = (int, string)", the parentheses holding any      *)
(* number of element types from zero on, with or without a trailing comma  *)

MaxElements == 3

ElementTypes == {"int", "string", "Base"}

TupleSource(g) ==
    TypeA \o <<"(">>
    \o JoinWith([i \in DOMAIN g.elements |-> WordChars(g.elements[i])], <<",", " ">>)
    \o (IF g.trailing THEN <<",">> ELSE <<>>) \o <<")">>

\* "(,)" is not written: a trailing comma follows an element
InitTuple ==
    \E elements \in SeqsUpTo(ElementTypes, MaxElements), trailing \in BOOLEAN :
        /\ trailing => elements # <<>>
        /\ InitWalk(<<TupleSource([elements |-> elements, trailing |-> trailing])>>, {}, {},
                    [family |-> "tuple", elements |-> elements, trailing |-> trailing])

SpecTuple == InitTuple /\ [][NextUnit]_vars

\* what a type node is, its place in the text left out
Described(node) ==
    CASE node.kind = "NumericType" -> [kind |-> node.kind, name |-> node.type_name]
      [] node.kind = "ReferenceType" -> [kind |-> node.kind, name |-> node.path]
      [] OTHER -> [kind |-> node.kind, name |-> ""]

\* the type node an element type of the family is written for
ElementDescribed(w) ==
    CASE w = "int" -> [kind |-> "NumericType", name |-> "int"]
      [] w = "string" -> [kind |-> "StringType", name |-> ""]
      [] w = "Base" -> [kind |-> "ReferenceType", name |-> "Base"]

ElementsDescribed(node) ==
    [k \in DOMAIN node.element_types |-> Described(node.element_types[k])]

\* C18: tuple versus grouping.  "(T)" with a single type and no comma parses
\* to T itself, not to a TupleType; "()" parses to a TupleType with zero
\* elements; and "(T1, ..., Tn)" with n >= 2 parses to a TupleType with
\* exactly those n elements in order.
C18_TupleOrGrouping ==
    (idx > 1 /\ ~given.trailing) =>
        /\ last.error = "none"
        /\ TargetA # None
        /\ IF Len(given.elements) = 1
           THEN Described(TargetA[1]) = ElementDescribed(given.elements[1])
           ELSE /\ TargetA[1].kind = "TupleType"
                /\ ElementsDescribed(TargetA[1]) =
                      [k \in DOMAIN given.elements |-> ElementDescribed(given.elements[k])]

\* C18 witness: "type A = (int)" has been parsed to the numeric type int
C18_Witness ==
    /\ idx > 1 /\ last.error = "none"
    /\ given.elements = <<"int">> /\ ~given.trailing
    /\ TargetA[1].kind = "NumericType" /\ TargetA[1].type_name = "int"

\* the other cases of C18 reached: "()" parsed to the empty tuple, and
\* "(int, Base, string)" to the tuple of the three
C18_EmptyTupleParsed ==
    /\ idx > 1 /\ last.error = "none"
    /\ given.elements = <<>>
    /\ TargetA[1].kind = "TupleType" /\ TargetA[1].element_types = <<>>

C18_TripleParsed ==
    /\ idx > 1 /\ last.error = "none"
    /\ given.elements = <<"int", "Base", "string">> /\ ~given.trailing
    /\ TargetA[1].kind = "TupleType" /\ Len(TargetA[1].element_types) = 3

\* with a trailing comma the parentheses are a tuple of the elements written,
\* "(T,)" the tuple of one element
C18_TrailingCommaIsTuple ==
    (idx > 1 /\ given.trailing) =>
        /\ last.error = "none"
        /\ TargetA[1].kind = "TupleType"
        /\ ElementsDescribed(TargetA[1]) =
              [k \in DOMAIN given.elements |-> ElementDescribed(given.elements[k])]

-----------------------------------------------------------------------------
(* Newlines: a module that parses, written as its words with one space     *)
(* between them, and the same module with newlines put into one of the     *)
(* gaps between two adjacent words                                         *)

MaxNewlines == 1

\* the modules, each a sequence of words; a word is the text of one token
BaseModules ==
    <<
      <<<<"t", "y", "p", "e">>, <<"A">>, <<"=">>, <<"i", "n", "t">>, <<"|">>, <<"s",
        "t", "r", "i", "n", "g">>>>,
      <<<<"t", "y", "p", "e">>, <<"A">>, <<"<">>, <<"T">>, <<">">>, <<"=">>,
        <<"(">>, <<"i", "n", "t">>, <<",">>, <<"B">>, <<"<">>, <<"T">>, <<">">>,
        <<")">>>>,
      <<<<"t", "y", "p", "e">>, <<"A">>, <<"=">>, <<"[">>, <<"i", "n", "t">>,
        <<"]">>, <<"@">>, <<"1">>, <<".", ".">>, <<"5">>>>,
      <<<<"s", "t", "r", "u", "c", "t">>, <<"{">>, <<"a">>, <<":">>, <<"i", "n",
        "t">>, <<",">>, <<"b">>, <<"?">>, <<":">>, <<"s", "t", "r", "i", "n", "g">>,
        <<".", ".", ".">>, <<"B">>, <<"}">>>>,
      <<<<"e", "n", "u", "m">>, <<"{">>, <<"A">>, <<"=">>, <<"1">>, <<",">>,
        <<"B">>, <<"}">>>>,
      <<<<"d", "i", "s", "p", "a", "t", "c", "h">>, <<"d">>, <<"[">>, <<"k">>,
        <<"]">>, <<"t", "o">>, <<"B">>, <<"[">>, <<"k">>, <<"]">>>>,
      <<<<"/", "/", "/", "d">>, <<NL>>, <<"t", "y", "p", "e">>, <<"A">>, <<"=">>,
        <<"a", "n", "y">>, <<NL>>, <<"t", "y", "p", "e">>, <<"B">>, <<"=">>,
        <<"A">>>>
    >>

Gaps(base) == 1..(Len(BaseModules[base]) - 1)

\* the text of the base module with that many newlines put into the gap after
\* word `gap`; no newline is put anywhere when gap is 0
RECURSIVE SpacedFrom(_, _, _, _)
SpacedFrom(words, k, gap, newlines) ==
    IF k > Len(words) THEN <<>>
    ELSE words[k]
         \o (IF k = Len(words) THEN <<>>
             ELSE IF k = gap THEN [i \in 1..newlines |-> NL]
             ELSE <<" ">>)
         \o SpacedFrom(words, k + 1, gap, newlines)

NewlineSource(g) == SpacedFrom(BaseModules[g.base], 1, g.gap, g.newlines)

InitNewline ==
    \E base \in DOMAIN BaseModules, newlines \in 0..MaxNewlines :
        \E gap \in (IF newlines = 0 THEN {0} ELSE Gaps(base)) :
            \E g \in {[family |-> "newline", base |-> base, gap |-> gap,
                        newlines |-> newlines]} :
                InitWalk(<<NewlineSource(g)>>, {}, {}, g)

SpecNewline == InitNewline /\ [][NextUnit]_vars

\* a node of the tree with the line and column of every node left out
RECURSIVE Unplaced(_)
UnplacedAll(nodes) == [k \in DOMAIN nodes |-> Unplaced(nodes[k])]
Unplaced(node) ==
    LET here == [node EXCEPT !.line = 0, !.column = 0] IN
    CASE node.kind = "Module" ->
            [node EXCEPT !.statements = UnplacedAll(node.statements)]
      [] node.kind \in {"TypeAlias", "DispatchStatement"} ->
            [here EXCEPT !.target_type = Unplaced(node.target_type)]
      [] node.kind = "StructType" ->
            [here EXCEPT !.fields = [k \in DOMAIN node.fields |->
                                       [node.fields[k] EXCEPT !.type = Unplaced(@)]],
                         !.spreads = UnplacedAll(node.spreads)]
      [] node.kind = "UnionType" -> [here EXCEPT !.types = UnplacedAll(node.types)]
      [] node.kind = "TupleType" ->
            [here EXCEPT !.element_types = UnplacedAll(node.element_types)]
      [] node.kind = "ListType" ->
            [here EXCEPT !.element_type = Unplaced(node.element_type)]
      [] node.kind = "ReferenceType" ->
            [here EXCEPT !.type_args = UnplacedAll(node.type_args)]
      [] node.kind = "IndexedType" ->
            [here EXCEPT !.base_type = Unplaced(node.base_type)]
      [] OTHER -> here

\* the Module of the base module as written, without any newline put in
BaseModule(base) ==
    front(NewlineSource([base |-> base, gap |-> 0, newlines |-> 0])).module

\* C19: newlines are skippable anywhere.  Inserting NEWLINE tokens between
\* any two adjacent tokens of a module that parses (after "=" in a type
\* alias, before or after "|" in a union, after ":" in a field, ...) yields
\* a token sequence that still parses, to the same Module.
C19_NewlinesSkippable ==
    idx > 1 =>
        /\ last.error = "none"
        /\ last.module # None
        /\ Unplaced(last.module[1]) = Unplaced(BaseModule(given.base)[1])

\* the precondition of C19 on the modules of the family: each of them, as
\* written, parses
C19_BaseModulesParse ==
    (idx > 1 /\ given.gap = 0) => (last.error = "none" /\ last.module # None)

\* the word before the gap and the word after it
Before == BaseModules[given.base][given.gap]
After == BaseModules[given.base][given.gap + 1]

\* what the code does: a newline is skipped where a statement, a field, a
\* spread or a variant may begin or has just ended, and there the Module is
\* the same; in any other gap the newline is a ParseError
C19_SkippedBetweenItems ==
    (idx > 1 /\ given.gap > 0) =>
        IF last.error = "none"
        THEN Unplaced(last.module[1]) = Unplaced(BaseModule(given.base)[1])
        ELSE last.error = "ParseError"

-----------------------------------------------------------------------------
(* Struct declarations by place: the struct of the struct family written   *)
(* as a statement of its own, as the target of a type alias, as the type   *)
(* of a field, and as the first or the second member of a union            *)

MaxNested == 2

Places == {"statement", "alias", "field", "first_member", "second_member"}

\* the declaration, with the keyword as the grammar writes it or, without
\* it, from the brace on
Declaration(g) ==
    IF g.keyword THEN StructSource(g)
    ELSE SubSeq(StructSource(g), 8, Len(StructSource(g)))

PlacedSource(g) ==
    CASE g.place = "statement" -> Declaration(g)
      [] g.place = "alias" -> TypeA \o Declaration(g)
      [] g.place = "field" ->
            <<"s", "t", "r", "u", "c", "t", " ", "{", " ", "f", ":", " ">>
            \o Declaration(g) \o <<" ", "}">>
      [] g.place = "first_member" ->
            TypeA \o Declaration(g) \o <<" ", "|", " ">> \o WordChars("int")
      [] g.place = "second_member" ->
            TypeA \o WordChars("int") \o <<" ", "|", " ">> \o Declaration(g)

InitPlaced ==
    \E items \in SeqsUpTo(Items, MaxNested), place \in Places, keyword \in BOOLEAN :
        \E g \in {[family |-> "placed", items |-> items, place |-> place,
                    keyword |-> keyword]} :
            InitWalk(<<PlacedSource(g)>>, {}, {}, g)

SpecPlaced == InitPlaced /\ [][NextUnit]_vars

\* the node of the Module at the place the declaration was written in
Placed(module, place) ==
    CASE place = "statement" -> module.statements[1]
      [] place = "alias" -> module.statements[1].target_type
      [] place = "field" -> module.statements[1].fields[1].type
      [] place = "first_member" -> module.statements[1].target_type.types[1]
      [] place = "second_member" -> module.statements[1].target_type.types[2]

\* the node is a StructType holding the fields and the spreads of the items,
\* in the order they were written
Declares(node, items) ==
    /\ node.kind = "StructType"
    /\ [k \in DOMAIN node.fields |->
            [name |-> node.fields[k].name, optional |-> node.fields[k].optional,
             type |-> Described(node.fields[k].type)]]
       = [k \in DOMAIN FieldPlaces(items) |->
            [name |-> LowerSeq[FieldPlaces(items)[k]],
             optional |-> items[FieldPlaces(items)[k]].optional,
             type |-> ElementDescribed(items[FieldPlaces(items)[k]].type)]]
    /\ [k \in DOMAIN node.spreads |-> Described(node.spreads[k])]
       = [k \in DOMAIN SpreadPlaces(items) |->
            [kind |-> "ReferenceType", name |-> items[SpreadPlaces(items)[k]].path]]

\* C20: a struct declaration is a valid primary type.  A struct written in
\* type position (as a field type, a type-alias target or a union member)
\* parses to a StructType with its fields, instead of raising ParseError.
C20_StructIsPrimaryType ==
    (idx > 1 /\ given.keyword /\ given.place # "statement") =>
        /\ last.error = "none"
        /\ last.module # None
        /\ Declares(Placed(last.module[1], given.place), given.items)

\* what the code does: in every type position the declaration is a
\* ParseError, written with the keyword or from the brace on
C20_StructInTypeIsParseError ==
    (idx > 1 /\ given.place # "statement") =>
        (last.error = "ParseError" /\ last.module = None)

\* the same declaration as a statement of its own parses to the StructType
\* with its fields and spreads
C20_StatementStructParsed ==
    (idx > 1 /\ given.keyword /\ given.place = "statement") =>
        /\ last.error = "none"
        /\ last.module # None
        /\ Declares(Placed(last.module[1], given.place), given.items)

\* "struct { a: int, ...Base }" has been parsed as a statement of its own
C20_StatementWitness ==
    /\ idx > 1 /\ given.keyword /\ given.place = "statement"
    /\ given.items = <<[kind |-> "field", optional |-> FALSE, type |-> "int"],
                       [kind |-> "spread", path |-> "Base"]>>
    /\ last.error = "none"
    /\ Declares(Placed(last.module[1], given.place), given.items)

-----------------------------------------------------------------------------
(* The front end turn by turn: the Lexer of one file in the while loop of  *)
(* tokenize, then the Parser in the while loop of parse_module.  The texts *)
(* are the modules of the newline family cut after some of their words,    *)
(* so that the text ends inside every loop of the parser, with some words  *)
(* that keep a loop going, or end the lexer, put after the cut.            *)

MaxTail == 1

TailWords ==
    {<<",">>, <<NL>>, <<"|">>, <<"[">>, <<"<">>, <<"(">>, <<":", ":">>,
     <<"/", "/", "/", "d">>, <<"$">>, <<"\"">>, <<NUL>>}

FrontSource(g) ==
    SpacedFrom(SubSeq(BaseModules[g.base], 1, g.cut) \o g.tail, 1, 0, 0)

InitFront ==
    \E base \in DOMAIN BaseModules, tail \in SeqsUpTo(TailWords, MaxTail) :
        \E cut \in 0..Len(BaseModules[base]) :
            \E g \in {[family |-> "front", base |-> base, cut |-> cut, tail |-> tail]} :
                /\ tree = <<FrontSource(g)>>
                /\ unreadable = {}
                /\ unwritable = {}
                /\ pc = "lex"
                /\ idx = 1
                /\ output = EmptyDict
                /\ log = <<>>
                /\ type_definitions = EmptyDict
                /\ schema_cache = EmptyDict
                /\ last = NoLast
                /\ run = 1
                /\ first_output = EmptyDict
                /\ given = g
                /\ lexer = Lexing(Lexer_init, <<>>, FALSE)
                /\ parser = None

\* one turn of the while loop of tokenize.  The turn that never ends, or
\* that leaves the lexer where it was and so is taken again for ever, leaves
\* the program in the loop, in the state it is in
LexTurn ==
    /\ pc = "lex"
    /\ \E S \in {tokenize_turn(tree[1], lexer)} :
         IF S.err = "NonTermination" THEN UNCHANGED <<pc, last, lexer, parser>>
         ELSE IF S.err # "none"
         THEN /\ pc' = "raised"
              /\ last' = [file |-> 1, error |-> S.err, tokens |-> None, module |-> None]
              /\ UNCHANGED <<lexer, parser>>
         ELSE /\ lexer' = S
              /\ pc' = IF S.done THEN "parse" ELSE "lex"
              /\ parser' = IF S.done THEN Parsing(0, <<>>, FALSE) ELSE parser
              /\ UNCHANGED last
    /\ UNCHANGED <<tree, unreadable, unwritable, idx, output, log, type_definitions,
                   schema_cache, run, first_output, given>>

\* one turn of the while loop of parse_module, on the tokens the lexer
\* returned.  A loop inside the turn that never ends, and a turn that leaves
\* the parser where it was, leave the program in the loop
ParseTurn ==
    /\ pc = "parse"
    /\ \E S \in {parse_module_turn(lexer.tokens, parser)} :
         IF S.err = "NonTermination" THEN UNCHANGED <<pc, last, parser>>
         ELSE IF S.err # "none"
         THEN /\ pc' = "raised"
              /\ last' = [file |-> 1, error |-> S.err, tokens |-> Some(lexer.tokens),
                          module |-> None]
              /\ UNCHANGED parser
         ELSE IF S.done
         THEN /\ pc' = "parsed"
              /\ parser' = S
              /\ last' = [file |-> 1, error |-> "none", tokens |-> Some(lexer.tokens),
                          module |-> Some(Module(S.statements))]
         ELSE IF ~(S.pos > parser.pos) THEN UNCHANGED <<pc, last, parser>>
         ELSE /\ parser' = S
              /\ UNCHANGED <<pc, last>>
    /\ UNCHANGED <<tree, unreadable, unwritable, idx, output, log, type_definitions,
                   schema_cache, run, first_output, given, lexer>>

NextFront == LexTurn \/ ParseTurn

SpecFront == InitFront /\ [][NextFront]_vars

\* the program is sequential and runs on: whichever turn is next is taken
LiveFront == SpecFront /\ WF_vars(NextFront)

\* the last token, and only that token, is EOF
EOFLastOnly(tokens) ==
    /\ tokens # <<>>
    /\ \A i \in DOMAIN tokens : (tokens[i].type = "EOF") <=> (i = Len(tokens))

\* tokenize has returned, or raised; parse_module has returned, or raised
Lexed21 == pc \in {"parse", "parsed"} \/ (pc = "raised" /\ last.tokens # None)
FrontEnded == pc \in {"parsed", "raised"}

\* a turn of either while loop that is followed by another one has consumed
\* one character, or one token, at least
TurnConsumes ==
    /\ (pc = "lex" /\ pc' = "lex") => lexer'.L.pos > lexer.L.pos
    /\ (pc = "parse" /\ pc' = "parse") => parser'.pos > parser.pos

\* C21: termination of the front end.  For every finite source text,
\* Lexer.tokenize terminates, either raising LexerError or returning a token
\* list whose last token, and only that token, is EOF; and for every such
\* token list Parser.parse_module terminates, because every iteration of
\* every lexer and parser loop (module, struct body, enum body, type
\* parameters, type arguments, dispatch indices, tuple elements, index
\* brackets) consumes at least one character or token or raises.
C21_FrontEndTerminates ==
    /\ <>FrontEnded
    /\ [](Lexed21 => (lexer.done /\ EOFLastOnly(lexer.tokens)))
    /\ []((pc = "raised" /\ ~Lexed21) => last.error = "LexerError")
    /\ [](pc = "parsed" => (parser.done /\ last.module # None))
    /\ [][TurnConsumes]_vars

\* C21 witness: "struct { a : int , b ? : string ... B }" has been lexed to
\* its fourteen tokens and parsed, the struct body loop having run for its
\* two fields and its spread
C21_Witness ==
    /\ pc = "parsed"
    /\ given.base = 4 /\ given.cut = Len(BaseModules[4]) /\ given.tail = <<>>
    /\ Len(lexer.tokens) = 14
    /\ Len(parser.statements) = 1
    /\ Len(parser.statements[1].fields) = 2
    /\ Len(parser.statements[1].spreads) = 1

====
